---- MODULE Spec2Model ----
(***************************************************************************)
(* Course management service (FastAPI + psycopg2 + python-jose + passlib). *)
(*                                                                         *)
(* State: the PostgreSQL database (committed tables and sequences), the    *)
(* open transaction of each service process's single connection, the      *)
(* wall clock, the bearer tokens handed out so far, and per process its    *)
(* position and the response it is about to send.                          *)
(*                                                                         *)
(* Every endpoint is `async def` and calls the blocking store API without  *)
(* awaiting, so inside one process a handler runs to completion: Spec has  *)
(* one action per endpoint (dependency get_current_user included).         *)
(* SpecRace runs two service processes against the same database and       *)
(* splits signup at its two store statements.  SpecToken exercises token   *)
(* issue and verification against a finer clock.                           *)
(***************************************************************************)
EXTENDS Integers, Sequences, FiniteSets, TLC

\* ---------------------------------------------------------------- bounds
MaxStudents == 2
MaxCourses == 1
MaxEnrollments == 2
MaxRaceEnrollments == 3
MaxCascadeCourses == 2
MaxEmailLen == 5
MaxTokens == 3
TickHours == 25
TokenTickHours == 12
TokenMaxClock == 48

\* ------------------------------------------------------ program constants
jwt_expiration_hours == 24
MinPasswordLen == 6
BcryptMaxBytes == 72
jwt_secret == "dev-secret-key-change-in-production"
jwt_algorithm == "HS256"

Workers == {"w1", "w2"}

\* ------------------------------------------------------------ input sets
\* e-mail addresses are character sequences, so that the checks on "@" and
\* "." are computed; passwords and names are strings.
EmailA == <<"a", "@", "x", ".", "c">>
EmailB == <<"b", "@", "x", ".", "c">>
EmailBad == <<"i", "n", "v">>
NoEmail == <<>>
Emails == {EmailA, EmailB, EmailBad}
SignupPasswords == {"secret1", "abc", ""}
LoginPasswords == {"secret1", "admin123"}
NoName == "None"
Names == {"Test Student"}
Usernames == {"admin", "root"}
Titles == {"T", "U"}
Descriptions == {"D"}
Salts == {1}
StudentIds == 1..(MaxStudents + 1)
CourseIds == 1..(MaxCourses + 1)

VARIABLES now, db, txn, running, pc, issued, req, resp, race

vars == <<now, db, txn, running, pc, issued, req, resp, race>>

\* ===================================================================
\* auth.py
\* ===================================================================

\* pwd_context.hash: salted bcrypt; the digest is a function of salt and
\* plaintext and is modelled as that pair (an ideal hash).
\* bcrypt keys on the first 72 bytes of the password; passlib's bcrypt
\* handler passes longer passwords on without an error (truncate_error is
\* off by default)
bcrypt_key(password) ==
    IF Len(password) > BcryptMaxBytes
    THEN SubSeq(password, 1, BcryptMaxBytes)
    ELSE password

hash_password(password, salt) ==
    [scheme |-> "bcrypt", salt |-> salt,
     digest |-> <<salt, bcrypt_key(password)>>]

\* a verification that, for a hash it cannot identify, compares the
\* plaintext with what is stored
verify_password_PlainCompare(plain_password, hashed_password) ==
    IF hashed_password.scheme # "bcrypt"
    THEN hashed_password.digest[2] = plain_password
    ELSE hashed_password.digest =
             <<hashed_password.salt, bcrypt_key(plain_password)>>

\* pwd_context.verify; an unidentifiable hash raises and is turned to False.
verify_password(plain_password, hashed_password) ==
    IF hashed_password.scheme # "bcrypt"
    THEN FALSE
    ELSE hashed_password.digest =
             <<hashed_password.salt, bcrypt_key(plain_password)>>

\* HS256 signature of a payload under a key.
Sign(key, payload) == [alg |-> jwt_algorithm, key |-> key, over |-> payload]

NoPayload ==
    [sub |-> "None", type |-> "None", exp |-> 0, iat |-> 0,
     email |-> NoEmail, username |-> "None"]

create_access_token(data, user_type, t) ==
    LET to_encode == [sub |-> data.sub, email |-> data.email,
                      username |-> data.username,
                      exp |-> t + jwt_expiration_hours,
                      type |-> user_type,
                      iat |-> t]
    IN  [wellformed |-> TRUE,
         payload |-> to_encode,
         sig |-> Sign(jwt_secret, to_encode)]

\* verify_token that takes exp itself as already past
verify_token_EarlyExpiry(token, t) ==
    IF ~token.wellformed THEN NoPayload
    ELSE IF token.sig # Sign(jwt_secret, token.payload) THEN NoPayload
    ELSE IF token.payload.exp <= t THEN NoPayload
    ELSE token.payload

\* verify_token that decodes without verifying the signature
verify_token_Unsigned(token, t) ==
    IF ~token.wellformed THEN NoPayload
    ELSE IF token.payload.exp < t THEN NoPayload
    ELSE token.payload

\* verify_token that also looks the subject up in the store
verify_token_Stored(token, t) ==
    IF ~token.wellformed THEN NoPayload
    ELSE IF token.sig # Sign(jwt_secret, token.payload) THEN NoPayload
    ELSE IF token.payload.exp < t THEN NoPayload
    ELSE IF /\ token.payload.type = "student"
            /\ ~\E w \in Workers :
                  \E s \in db.students \cup txn[w].students :
                      s.email = token.payload.email
    THEN NoPayload
    ELSE token.payload

\* jwt.decode: structure, then signature, then exp (rejected when exp < now);
\* every failure is a JWTError and gives None.
verify_token(token, t) ==
    IF ~token.wellformed THEN NoPayload
    ELSE IF token.sig # Sign(jwt_secret, token.payload) THEN NoPayload
    ELSE IF token.payload.exp < t THEN NoPayload
    ELSE token.payload

Contains(s, ch) == \E i \in 1..Len(s) : s[i] = ch

validate_email(email) ==
    IF email = <<>> \/ ~Contains(email, "@") \/ ~Contains(email, ".")
    THEN FALSE
    ELSE TRUE

\* the length test one character too lenient
validate_password_OffByOne(password) ==
    IF password = "" THEN [ok |-> FALSE, msg |-> "Password is required"]
    ELSE IF Len(password) < MinPasswordLen - 1
    THEN [ok |-> FALSE, msg |-> "Password must be at least 6 characters long"]
    ELSE [ok |-> TRUE, msg |-> ""]

validate_password(password) ==
    IF password = "" THEN [ok |-> FALSE, msg |-> "Password is required"]
    ELSE IF Len(password) < MinPasswordLen
    THEN [ok |-> FALSE, msg |-> "Password must be at least 6 characters long"]
    ELSE [ok |-> TRUE, msg |-> ""]

\* pydantic EmailStr on the request body: one "@", a non-empty local part
\* and a domain with an inner "."; a rejected body is answered 422 by FastAPI.
EmailStr(email) ==
    /\ Cardinality({i \in 1..Len(email) : email[i] = "@"}) = 1
    /\ LET at == CHOOSE i \in 1..Len(email) : email[i] = "@"
       IN  /\ at > 1
           /\ \E j \in (at + 2)..(Len(email) - 1) : email[j] = "."

\* str(id) and int(sub) on the ids the model uses
Digits == <<"1", "2", "3", "4", "5", "6", "7", "8", "9">>
str(n) == Digits[n]
IsInt(s) == \E n \in 1..Len(Digits) : Digits[n] = s
int(s) == CHOOSE n \in 1..Len(Digits) : Digits[n] = s

\* ===================================================================
\* db.py: one connection per process, autocommit off
\* ===================================================================
EmptyTx == [students |-> {}, courses |-> {}, enrollments |-> {}]

EmptyDb ==
    [schema |-> FALSE, students |-> {}, admins |-> {}, courses |-> {},
     enrollments |-> {},
     seq |-> [students |-> 1, courses |-> 1, enrollments |-> 1]]

\* what the statements of a connection see: committed rows overlaid with the
\* connection's own uncommitted inserts and updates
ViewStudents(st) == st.db.students \cup st.tx.students
ViewCourses(st) ==
    {c \in st.db.courses : \A u \in st.tx.courses : u.id # c.id}
        \cup st.tx.courses
ViewEnrollments(st) == st.db.enrollments \cup st.tx.enrollments

\* connection.commit()
Commit(st) ==
    [db |-> [st.db EXCEPT !.students = ViewStudents(st),
                          !.courses = ViewCourses(st),
                          !.enrollments = ViewEnrollments(st)],
     tx |-> EmptyTx]

\* connection.rollback()
Rollback(st) == [db |-> st.db, tx |-> EmptyTx]

\* result of a Database method: the store afterwards, the rows fetched and
\* whether the method raised
Ret(st, rows, raised) == [st |-> st, rows |-> rows, raised |-> raised]

initialize_schema(st) ==
    Commit([st EXCEPT !.db.schema = TRUE])

\* the seeding as an upsert: ON CONFLICT (username) DO UPDATE
seed_admin_Overwrite(st, username, password_hash) ==
    Commit([st EXCEPT !.db.admins =
               {a \in @ : a.username # username} \cup
                   {[id |-> 1, username |-> username,
                     password_hash |-> password_hash]}])

seed_admin(st, username, password_hash) ==
    IF \E a \in st.db.admins : a.username = username
    THEN Commit(st)
    ELSE Commit([st EXCEPT !.db.admins = @ \cup
                    {[id |-> 1, username |-> username,
                      password_hash |-> password_hash]}])

\* create_student on a table without the UNIQUE constraint on email
create_student_NoUnique(st, email, password_hash, name, t) ==
    LET id == st.db.seq.students
        s1 == [st EXCEPT !.db.seq.students = @ + 1]
        row == [id |-> id, email |-> email, password_hash |-> password_hash,
                name |-> name, created_at |-> t]
    IN  Ret([s1 EXCEPT !.tx.students = @ \cup {row}],
            {[id |-> id, email |-> email, name |-> name,
              created_at |-> t]}, FALSE)

create_student(st, email, password_hash, name, t) ==
    LET id == st.db.seq.students
        s1 == [st EXCEPT !.db.seq.students = @ + 1]
        row == [id |-> id, email |-> email, password_hash |-> password_hash,
                name |-> name, created_at |-> t]
    IN  IF \E s \in ViewStudents(st) : s.email = email
        THEN Ret(Rollback(s1), {}, TRUE)
        ELSE Ret([s1 EXCEPT !.tx.students = @ \cup {row}],
                 {[id |-> id, email |-> email, name |-> name,
                   created_at |-> t]}, FALSE)

get_student_by_email(st, email) ==
    Ret(st, {s \in ViewStudents(st) : s.email = email}, FALSE)

\* the listing as SELECT * FROM students
get_all_students_Star(st) == Ret(st, ViewStudents(st), FALSE)

get_all_students(st) ==
    Ret(st, {[id |-> s.id, email |-> s.email, name |-> s.name,
              created_at |-> s.created_at] : s \in ViewStudents(st)}, FALSE)

create_course(st, title, description, created_by, t) ==
    LET id == st.db.seq.courses
        s1 == [st EXCEPT !.db.seq.courses = @ + 1]
        row == [id |-> id, title |-> title, description |-> description,
                created_by |-> created_by, created_at |-> t, updated_at |-> t]
    IN  IF ~\E a \in st.db.admins : a.id = created_by
        THEN Ret(Rollback(s1), {}, TRUE)
        ELSE Ret([s1 EXCEPT !.tx.courses = @ \cup {row}],
                 {[id |-> id, title |-> title, description |-> description,
                   created_at |-> t]}, FALSE)

\* the UPDATE without its WHERE clause
update_course_AllRows(st, course_id, title, description, t) ==
    LET old == ViewCourses(st)
        new == {[c EXCEPT !.title = title, !.description = description,
                          !.updated_at = t] : c \in old}
    IN  Ret([st EXCEPT !.tx.courses = new],
            {[id |-> c.id, title |-> c.title, description |-> c.description,
              updated_at |-> c.updated_at] : c \in {x \in new :
                                                       x.id = course_id}},
            FALSE)

update_course(st, course_id, title, description, t) ==
    LET old == {c \in ViewCourses(st) : c.id = course_id}
        new == {[c EXCEPT !.title = title, !.description = description,
                          !.updated_at = t] : c \in old}
    IN  Ret([st EXCEPT !.tx.courses =
                 {c \in @ : c.id # course_id} \cup new],
            {[id |-> c.id, title |-> c.title, description |-> c.description,
              updated_at |-> c.updated_at] : c \in new}, FALSE)

\* DELETE FROM courses, the cascade on enrollments, and the commit
\* the DELETE without ON DELETE CASCADE on enrollments.course_id
delete_course_NoCascade(st, course_id) ==
    LET s1 == [db |-> [st.db EXCEPT
                         !.courses = {c \in @ : c.id # course_id}],
               tx |-> [st.tx EXCEPT
                         !.courses = {c \in @ : c.id # course_id}]]
    IN  Ret(Commit(s1), {}, FALSE)

delete_course(st, course_id) ==
    LET s1 == [db |-> [st.db EXCEPT
                         !.courses = {c \in @ : c.id # course_id},
                         !.enrollments = {e \in @ : e.course_id # course_id}],
               tx |-> [st.tx EXCEPT
                         !.courses = {c \in @ : c.id # course_id},
                         !.enrollments = {e \in @ : e.course_id # course_id}]]
    IN  Ret(Commit(s1), {}, FALSE)

get_all_courses(st) ==
    Ret(st, {[id |-> c.id, title |-> c.title, description |-> c.description,
              created_at |-> c.created_at, updated_at |-> c.updated_at] :
                c \in ViewCourses(st)}, FALSE)

get_course_by_id(st, course_id) ==
    Ret(st, {c \in ViewCourses(st) : c.id = course_id}, FALSE)

\* enroll_student whose INSERT has no ON CONFLICT clause
enroll_student_NoOnConflict(st, student_id, course_id, t) ==
    LET id == st.db.seq.enrollments
        s1 == [st EXCEPT !.db.seq.enrollments = @ + 1]
        row == [id |-> id, student_id |-> student_id, course_id |-> course_id,
                enrolled_at |-> t]
    IN  IF \/ \E e \in ViewEnrollments(st) :
                  e.student_id = student_id /\ e.course_id = course_id
           \/ ~\E s \in ViewStudents(st) : s.id = student_id
           \/ ~\E c \in ViewCourses(st) : c.id = course_id
        THEN Ret(Rollback(s1), {}, TRUE)
        ELSE Ret([s1 EXCEPT !.tx.enrollments = @ \cup {row}], {row}, FALSE)

\* the INSERT without the REFERENCES constraints of the enrollments table
enroll_student_NoForeignKey(st, student_id, course_id, t) ==
    LET id == st.db.seq.enrollments
        s1 == [st EXCEPT !.db.seq.enrollments = @ + 1]
        row == [id |-> id, student_id |-> student_id, course_id |-> course_id,
                enrolled_at |-> t]
    IN  IF \E e \in ViewEnrollments(st) :
                e.student_id = student_id /\ e.course_id = course_id
        THEN Ret(s1, {}, FALSE)
        ELSE Ret([s1 EXCEPT !.tx.enrollments = @ \cup {row}], {row}, FALSE)

enroll_student(st, student_id, course_id, t) ==
    LET id == st.db.seq.enrollments
        s1 == [st EXCEPT !.db.seq.enrollments = @ + 1]
        row == [id |-> id, student_id |-> student_id, course_id |-> course_id,
                enrolled_at |-> t]
    IN  IF \E e \in ViewEnrollments(st) :
                e.student_id = student_id /\ e.course_id = course_id
        THEN Ret(s1, {}, FALSE)
        ELSE IF \/ ~\E s \in ViewStudents(st) : s.id = student_id
                \/ ~\E c \in ViewCourses(st) : c.id = course_id
        THEN Ret(Rollback(s1), {}, TRUE)
        ELSE Ret([s1 EXCEPT !.tx.enrollments = @ \cup {row}], {row}, FALSE)

\* the DELETE with "WHERE student_id = %s" only
unenroll_student_AnyCourse(st, student_id, course_id) ==
    LET gone(e) == e.student_id = student_id
        s1 == [db |-> [st.db EXCEPT !.enrollments = {e \in @ : ~gone(e)}],
               tx |-> [st.tx EXCEPT !.enrollments = {e \in @ : ~gone(e)}]]
    IN  Ret(Commit(s1), {}, FALSE)

unenroll_student(st, student_id, course_id) ==
    LET gone(e) == e.student_id = student_id /\ e.course_id = course_id
        s1 == [db |-> [st.db EXCEPT !.enrollments = {e \in @ : ~gone(e)}],
               tx |-> [st.tx EXCEPT !.enrollments = {e \in @ : ~gone(e)}]]
    IN  Ret(Commit(s1), {}, FALSE)

get_student_courses(st, student_id) ==
    Ret(st, {[id |-> c.id, title |-> c.title, description |-> c.description,
              enrolled_at |-> e.enrolled_at] :
                <<c, e>> \in {p \in ViewCourses(st) \X ViewEnrollments(st) :
                                 /\ p[1].id = p[2].course_id
                                 /\ p[2].student_id = student_id}}, FALSE)

get_course_students(st, course_id) ==
    Ret(st, {[id |-> s.id, email |-> s.email, name |-> s.name,
              enrolled_at |-> e.enrolled_at] :
                <<s, e>> \in {p \in ViewStudents(st) \X ViewEnrollments(st) :
                                 /\ p[1].id = p[2].student_id
                                 /\ p[2].course_id = course_id}}, FALSE)

get_admin_by_username(st, username) ==
    Ret(st, {a \in st.db.admins : a.username = username}, FALSE)

\* ===================================================================
\* app.py
\* ===================================================================
\* the store as seen through the connection of process w
Conn(w) == [db |-> db, tx |-> txn[w]]

\* outcome of a handler: store afterwards, HTTP status, detail or message,
\* token issued (at most one), rows of the response body, and the number of
\* store statements the request executed
Out(st, status, detail, tokens, body, queries) ==
    [st |-> st, status |-> status, detail |-> detail, tokens |-> tokens,
     body |-> body, queries |-> queries]

\* Authorization header: absent (None or ""), or the words of split()
Garbage == [wellformed |-> FALSE, payload |-> NoPayload,
            sig |-> Sign("", NoPayload)]
NoHeader == [present |-> FALSE, n |-> 0, scheme |-> "", token |-> Garbage]
Header(scheme, token) ==
    [present |-> TRUE, n |-> 2, scheme |-> scheme, token |-> token]

lower(s) ==
    CASE s = "Bearer" -> "bearer"
      [] s = "BEARER" -> "bearer"
      [] s = "Basic" -> "basic"
      [] OTHER -> s

\* the gate without the check of the scheme word
get_current_user_AnyScheme(authorization, t) ==
    IF ~authorization.present
    THEN [ok |-> FALSE, detail |-> "Authorization header required",
          payload |-> NoPayload]
    ELSE IF authorization.n # 2
    THEN [ok |-> FALSE, detail |-> "Invalid authorization header format",
          payload |-> NoPayload]
    ELSE LET payload == verify_token(authorization.token, t)
         IN  IF payload = NoPayload
             THEN [ok |-> FALSE, detail |-> "Invalid or expired token",
                   payload |-> NoPayload]
             ELSE [ok |-> TRUE, detail |-> "", payload |-> payload]

get_current_user(authorization, t) ==
    IF ~authorization.present
    THEN [ok |-> FALSE, detail |-> "Authorization header required",
          payload |-> NoPayload]
    ELSE IF authorization.n # 2 \/ lower(authorization.scheme) # "bearer"
    THEN [ok |-> FALSE, detail |-> "Invalid authorization header format",
          payload |-> NoPayload]
    ELSE LET payload == verify_token(authorization.token, t)
         IN  IF payload = NoPayload
             THEN [ok |-> FALSE, detail |-> "Invalid or expired token",
                   payload |-> NoPayload]
             ELSE [ok |-> TRUE, detail |-> "", payload |-> payload]

Unauthorized(st, cu) == Out(st, 401, cu.detail, {}, {}, 0)
Forbidden(st, detail) == Out(st, 403, detail, {}, {}, 0)

\* student_signup up to and including the existence check; status 0 means
\* that the handler goes on to create the student
signup_check(st, r) ==
    IF ~EmailStr(r.email)
    THEN Out(st, 422, "value is not a valid email address", {}, {}, 0)
    ELSE IF ~validate_email(r.email)
    THEN Out(st, 400, "Invalid email format", {}, {}, 0)
    ELSE IF ~validate_password(r.password).ok
    THEN Out(st, 400, validate_password(r.password).msg, {}, {}, 0)
    ELSE IF get_student_by_email(st, r.email).rows # {}
    THEN Out(st, 400, "Email already registered", {}, {}, 1)
    ELSE Out(st, 0, "", {}, {}, 1)

\* student_signup from hash_password on
signup_create(st, r, t, salt) ==
    LET password_hash == hash_password(r.password, salt)
        cs == create_student(st, r.email, password_hash, r.name, t)
    IN  IF cs.raised
        THEN Out(cs.st, 500, "Signup failed", {}, {}, 2)
        ELSE LET new_student == CHOOSE row \in cs.rows : TRUE
                 token == create_access_token(
                             [sub |-> str(new_student.id),
                              email |-> new_student.email,
                              username |-> "None"], "student", t)
             IN  Out(cs.st, 200, "Student created successfully", {token},
                     {[id |-> new_student.id,
                       email |-> new_student.email,
                       name |-> new_student.name]}, 2)

student_signup(st, r, t, salt) ==
    IF signup_check(st, r).status # 0
    THEN signup_check(st, r)
    ELSE signup_create(st, r, t, salt)

\* student_login that issues its token with the admin role
student_login_AsAdmin(st, r, t) ==
    IF ~EmailStr(r.email)
    THEN Out(st, 422, "value is not a valid email address", {}, {}, 0)
    ELSE LET found == get_student_by_email(st, r.email).rows
         IN  IF found = {}
             THEN Out(st, 401, "Invalid credentials", {}, {}, 1)
             ELSE LET student == CHOOSE row \in found : TRUE
                  IN  IF ~verify_password(r.password, student.password_hash)
                      THEN Out(st, 401, "Invalid credentials", {}, {}, 1)
                      ELSE Out(st, 200, "Login successful",
                               {create_access_token(
                                   [sub |-> str(student.id),
                                    email |-> student.email,
                                    username |-> "None"], "admin", t)},
                               {[id |-> student.id, email |-> student.email,
                                 name |-> student.name]}, 1)

\* student_login that tells an unknown e-mail from a wrong password
student_login_Telling(st, r, t) ==
    IF ~EmailStr(r.email)
    THEN Out(st, 422, "value is not a valid email address", {}, {}, 0)
    ELSE LET found == get_student_by_email(st, r.email).rows
         IN  IF found = {}
             THEN Out(st, 404, "Student not found", {}, {}, 1)
             ELSE LET student == CHOOSE row \in found : TRUE
                  IN  IF ~verify_password(r.password, student.password_hash)
                      THEN Out(st, 401, "Invalid credentials", {}, {}, 1)
                      ELSE Out(st, 200, "Login successful",
                               {create_access_token(
                                   [sub |-> str(student.id),
                                    email |-> student.email,
                                    username |-> "None"], "student", t)},
                               {[id |-> student.id, email |-> student.email,
                                 name |-> student.name]}, 1)

student_login(st, r, t) ==
    IF ~EmailStr(r.email)
    THEN Out(st, 422, "value is not a valid email address", {}, {}, 0)
    ELSE LET found == get_student_by_email(st, r.email).rows
         IN  IF found = {}
             THEN Out(st, 401, "Invalid credentials", {}, {}, 1)
             ELSE LET student == CHOOSE row \in found : TRUE
                  IN  IF ~verify_password(r.password, student.password_hash)
                      THEN Out(st, 401, "Invalid credentials", {}, {}, 1)
                      ELSE Out(st, 200, "Login successful",
                               {create_access_token(
                                   [sub |-> str(student.id),
                                    email |-> student.email,
                                    username |-> "None"], "student", t)},
                               {[id |-> student.id, email |-> student.email,
                                 name |-> student.name]}, 1)

admin_login(st, r, t) ==
    LET found == get_admin_by_username(st, r.username).rows
    IN  IF found = {}
        THEN Out(st, 401, "Invalid credentials", {}, {}, 1)
        ELSE LET admin == CHOOSE row \in found : TRUE
             IN  IF ~verify_password(r.password, admin.password_hash)
                 THEN Out(st, 401, "Invalid credentials", {}, {}, 1)
                 ELSE Out(st, 200, "Login successful",
                          {create_access_token(
                              [sub |-> str(admin.id), email |-> NoEmail,
                               username |-> admin.username], "admin", t)},
                          {[id |-> admin.id, username |-> admin.username]}, 1)

get_courses(st, r, t) ==
    Out(st, 200, "", {}, get_all_courses(st).rows, 1)

\* create_course of app.py (the store method of the same name is above)
create_course_endpoint(st, r, t) ==
    LET current_user == get_current_user(r.auth, t)
    IN  IF ~current_user.ok THEN Unauthorized(st, current_user)
        ELSE IF current_user.payload.type # "admin"
        THEN Forbidden(st, "Admin access required")
        ELSE IF ~IsInt(current_user.payload.sub)
        THEN Out(st, 500, "Failed to create course", {}, {}, 0)
        ELSE LET cc == create_course(st, r.title, r.description,
                                     int(current_user.payload.sub), t)
             IN  IF cc.raised
                 THEN Out(cc.st, 500, "Failed to create course", {}, {}, 1)
                 ELSE Out(cc.st, 200, "Course created successfully", {},
                          cc.rows, 1)

update_course_endpoint(st, r, t) ==
    LET current_user == get_current_user(r.auth, t)
    IN  IF ~current_user.ok THEN Unauthorized(st, current_user)
        ELSE IF current_user.payload.type # "admin"
        THEN Forbidden(st, "Admin access required")
        ELSE IF get_course_by_id(st, r.course_id).rows = {}
        THEN Out(st, 404, "Course not found", {}, {}, 1)
        ELSE LET uc == update_course(st, r.course_id, r.title,
                                     r.description, t)
             IN  Out(uc.st, 200, "Course updated successfully", {},
                     uc.rows, 2)

\* the handler without its look-up of the course
delete_course_endpoint_NoCheck(st, r, t) ==
    LET current_user == get_current_user(r.auth, t)
    IN  IF ~current_user.ok THEN Unauthorized(st, current_user)
        ELSE IF current_user.payload.type # "admin"
        THEN Forbidden(st, "Admin access required")
        ELSE Out(delete_course(st, r.course_id).st, 200,
                 "Course deleted successfully", {}, {}, 1)

delete_course_endpoint(st, r, t) ==
    LET current_user == get_current_user(r.auth, t)
    IN  IF ~current_user.ok THEN Unauthorized(st, current_user)
        ELSE IF current_user.payload.type # "admin"
        THEN Forbidden(st, "Admin access required")
        ELSE IF get_course_by_id(st, r.course_id).rows = {}
        THEN Out(st, 404, "Course not found", {}, {}, 1)
        ELSE Out(delete_course(st, r.course_id).st, 200,
                 "Course deleted successfully", {}, {}, 2)

get_students(st, r, t) ==
    LET current_user == get_current_user(r.auth, t)
    IN  IF ~current_user.ok THEN Unauthorized(st, current_user)
        ELSE IF current_user.payload.type # "admin"
        THEN Forbidden(st, "Admin access required")
        ELSE Out(st, 200, "", {}, get_all_students(st).rows, 1)

\* enroll_student without the role check
enroll_student_endpoint_NoRole(st, r, t) ==
    LET current_user == get_current_user(r.auth, t)
    IN  IF ~current_user.ok THEN Unauthorized(st, current_user)
        ELSE IF get_course_by_id(st, r.course_id).rows = {}
        THEN Out(st, 404, "Course not found", {}, {}, 1)
        ELSE LET en == enroll_student(st, r.student_id, r.course_id, t)
             IN  IF en.raised
                 THEN Out(en.st, 500, "Failed to enroll student", {}, {}, 2)
                 ELSE IF en.rows = {}
                 THEN Out(en.st, 200, "Student already enrolled in this course",
                          {}, {}, 2)
                 ELSE Out(en.st, 200, "Student enrolled successfully", {},
                          en.rows, 2)

\* the handler without its look-up of the course
enroll_student_endpoint_NoCourseCheck(st, r, t) ==
    LET current_user == get_current_user(r.auth, t)
    IN  IF ~current_user.ok THEN Unauthorized(st, current_user)
        ELSE IF current_user.payload.type # "admin"
        THEN Forbidden(st, "Admin access required")
        ELSE LET en == enroll_student(st, r.student_id, r.course_id, t)
             IN  IF en.raised
                 THEN Out(en.st, 500, "Failed to enroll student", {}, {}, 1)
                 ELSE IF en.rows = {}
                 THEN Out(en.st, 200, "Student already enrolled in this course",
                          {}, {}, 1)
                 ELSE Out(en.st, 200, "Student enrolled successfully", {},
                          en.rows, 1)

\* the handler taking every empty result of the INSERT, a failed one
\* included, for a conflict
enroll_student_endpoint_Swallow(st, r, t) ==
    LET current_user == get_current_user(r.auth, t)
    IN  IF ~current_user.ok THEN Unauthorized(st, current_user)
        ELSE IF current_user.payload.type # "admin"
        THEN Forbidden(st, "Admin access required")
        ELSE IF get_course_by_id(st, r.course_id).rows = {}
        THEN Out(st, 404, "Course not found", {}, {}, 1)
        ELSE LET en == enroll_student(st, r.student_id, r.course_id, t)
             IN  IF en.rows = {}
                 THEN Out(en.st, 200, "Student already enrolled in this course",
                          {}, {}, 2)
                 ELSE Out(en.st, 200, "Student enrolled successfully", {},
                          en.rows, 2)

enroll_student_endpoint(st, r, t) ==
    LET current_user == get_current_user(r.auth, t)
    IN  IF ~current_user.ok THEN Unauthorized(st, current_user)
        ELSE IF current_user.payload.type # "admin"
        THEN Forbidden(st, "Admin access required")
        ELSE IF get_course_by_id(st, r.course_id).rows = {}
        THEN Out(st, 404, "Course not found", {}, {}, 1)
        ELSE LET en == enroll_student(st, r.student_id, r.course_id, t)
             IN  IF en.raised
                 THEN Out(en.st, 500, "Failed to enroll student", {}, {}, 2)
                 ELSE IF en.rows = {}
                 THEN Out(en.st, 200, "Student already enrolled in this course",
                          {}, {}, 2)
                 ELSE Out(en.st, 200, "Student enrolled successfully", {},
                          en.rows, 2)

\* enroll_student of app.py through the SELECT of get_course_by_id; status
\* 0 means that the handler goes on to the INSERT
enroll_check(st, r, t) ==
    LET current_user == get_current_user(r.auth, t)
    IN  IF ~current_user.ok THEN Unauthorized(st, current_user)
        ELSE IF current_user.payload.type # "admin"
        THEN Forbidden(st, "Admin access required")
        ELSE IF get_course_by_id(st, r.course_id).rows = {}
        THEN Out(st, 404, "Course not found", {}, {}, 1)
        ELSE Out(st, 0, "", {}, {}, 1)

\* enroll_student of app.py from db.enroll_student on
enroll_insert(st, r, t) ==
    LET en == enroll_student(st, r.student_id, r.course_id, t)
    IN  IF en.raised
        THEN Out(en.st, 500, "Failed to enroll student", {}, {}, 2)
        ELSE IF en.rows = {}
        THEN Out(en.st, 200, "Student already enrolled in this course",
                 {}, {}, 2)
        ELSE Out(en.st, 200, "Student enrolled successfully", {},
                 en.rows, 2)

unenroll_student_endpoint(st, r, t) ==
    LET current_user == get_current_user(r.auth, t)
    IN  IF ~current_user.ok THEN Unauthorized(st, current_user)
        ELSE IF current_user.payload.type # "admin"
        THEN Forbidden(st, "Admin access required")
        ELSE Out(unenroll_student(st, r.student_id, r.course_id).st, 200,
                 "Student unenrolled successfully", {}, {}, 1)

\* get_student_courses that lets every student through
get_student_courses_endpoint_AnyStudent(st, r, t) ==
    LET current_user == get_current_user(r.auth, t)
    IN  IF ~current_user.ok THEN Unauthorized(st, current_user)
        ELSE Out(st, 200, "", {}, get_student_courses(st, r.student_id).rows, 1)

get_student_courses_endpoint(st, r, t) ==
    LET current_user == get_current_user(r.auth, t)
    IN  IF ~current_user.ok THEN Unauthorized(st, current_user)
        ELSE IF /\ current_user.payload.type = "student"
                /\ ~IsInt(current_user.payload.sub)
        THEN Out(st, 500, "Failed to fetch student courses", {}, {}, 0)
        ELSE IF /\ current_user.payload.type = "student"
                /\ int(current_user.payload.sub) # r.student_id
        THEN Forbidden(st, "Access denied")
        ELSE Out(st, 200, "", {}, get_student_courses(st, r.student_id).rows, 1)

get_course_students_endpoint(st, r, t) ==
    LET current_user == get_current_user(r.auth, t)
    IN  IF ~current_user.ok THEN Unauthorized(st, current_user)
        ELSE IF current_user.payload.type # "admin"
        THEN Forbidden(st, "Admin access required")
        ELSE Out(st, 200, "", {}, get_course_students(st, r.course_id).rows, 1)

\* ===================================================================
\* requests the clients can send
\* ===================================================================
MaxClock == TickHours

\* tokens a client can put together: the ones it was given, those with an
\* altered payload under the old signature, one signed with another key and
\* a string that is no JWT
Tampered ==
    {[t EXCEPT !.payload.type = "admin"] : t \in issued}
        \cup {[t EXCEPT !.payload.exp = @ + jwt_expiration_hours] : t \in issued}
ForgedPayload ==
    [sub |-> "1", email |-> NoEmail, username |-> "admin",
     exp |-> MaxClock + jwt_expiration_hours, type |-> "admin", iat |-> 0]
Forged == [wellformed |-> TRUE, payload |-> ForgedPayload,
           sig |-> Sign("attacker-key", ForgedPayload)]
Presentable == issued \cup Tampered \cup {Forged, Garbage}

\* every header shape the gate distinguishes
Headers ==
    {NoHeader,
     [present |-> TRUE, n |-> 0, scheme |-> "", token |-> Garbage],
     [present |-> TRUE, n |-> 1, scheme |-> "Bearer", token |-> Garbage]}
        \cup {Header("Basic", t) : t \in issued}
        \cup {Header("Bearer", t) : t \in Presentable}
        \cup {Header("BEARER", t) : t \in issued}

\* the headers the behaviours are driven with: every header whose request
\* can change the state, and one rejected of each kind
SentHeaders ==
    {NoHeader} \cup {Header("Bearer", t) : t \in issued \cup {Garbage}}

SignupReqs ==
    [op : {"student_signup"}, email : Emails, password : SignupPasswords,
     name : Names]
StudentLoginReqs ==
    [op : {"student_login"}, email : Emails, password : LoginPasswords]
AdminLoginReqs ==
    [op : {"admin_login"}, username : Usernames, password : LoginPasswords]
GetCoursesReqs == [op : {"get_courses"}]
CreateCourseReqs(H) ==
    [op : {"create_course"}, auth : H, title : Titles,
     description : Descriptions]
UpdateCourseReqs(H) ==
    [op : {"update_course"}, auth : H, course_id : CourseIds,
     title : Titles, description : Descriptions]
DeleteCourseReqs(H) ==
    [op : {"delete_course"}, auth : H, course_id : CourseIds]
GetStudentsReqs(H) == [op : {"get_students"}, auth : H]
EnrollReqs(H) ==
    [op : {"enroll_student"}, auth : H, student_id : StudentIds,
     course_id : CourseIds]
UnenrollReqs(H) ==
    [op : {"unenroll_student"}, auth : H, student_id : StudentIds,
     course_id : CourseIds]
StudentCoursesReqs(H) ==
    [op : {"get_student_courses"}, auth : H, student_id : StudentIds]
CourseStudentsReqs(H) ==
    [op : {"get_course_students"}, auth : H, course_id : CourseIds]

\* dispatch of a request that goes through get_current_user
Endpoint(st, r, t) ==
    CASE r.op = "create_course" -> create_course_endpoint(st, r, t)
      [] r.op = "update_course" -> update_course_endpoint(st, r, t)
      [] r.op = "delete_course" -> delete_course_endpoint(st, r, t)
      [] r.op = "get_students" -> get_students(st, r, t)
      [] r.op = "enroll_student" -> enroll_student_endpoint(st, r, t)
      [] r.op = "unenroll_student" -> unenroll_student_endpoint(st, r, t)
      [] r.op = "get_student_courses" ->
             get_student_courses_endpoint(st, r, t)
      [] r.op = "get_course_students" ->
             get_course_students_endpoint(st, r, t)

NoReq == [op |-> "none", email |-> NoEmail, password |-> "", name |-> NoName]
NoResp == [op |-> "none", status |-> 0, detail |-> "", tokens |-> {},
           body |-> {}]
NoRace == [email |-> NoEmail, status |-> 0]

\* ===================================================================
\* actions
\* ===================================================================
\* the sequences and the set of tokens in circulation stay within the bounds
Bounded(out) ==
    /\ out.st.db.seq.students <= MaxStudents + 1
    /\ out.st.db.seq.courses <= MaxCourses + 1
    /\ out.st.db.seq.enrollments <= MaxEnrollments + 1
    /\ Cardinality(issued \cup out.tokens) <= MaxTokens

Response(r, out) ==
    [op |-> r.op, status |-> out.status, detail |-> out.detail,
     tokens |-> out.tokens, body |-> out.body]

\* process w handles request r to completion with outcome out
Handle(w, r, out) ==
    /\ running[w]
    /\ pc[w] = "idle"
    /\ Bounded(out)
    /\ db' = out.st.db
    /\ txn' = [txn EXCEPT ![w] = out.st.tx]
    /\ issued' = issued \cup out.tokens
    /\ resp' = [resp EXCEPT ![w] = Response(r, out)]
    /\ pc' = [pc EXCEPT ![w] = "respond"]
    /\ UNCHANGED <<now, running, req, race>>

\* the response goes out and the process takes the next request
Respond(w) ==
    /\ pc[w] = "respond"
    /\ pc' = [pc EXCEPT ![w] = "idle"]
    /\ resp' = [resp EXCEPT ![w] = NoResp]
    /\ UNCHANGED <<now, db, txn, running, issued, req, race>>

\* startup_event: connect, create the tables if absent, seed the admin
startup_event(d, salt) ==
    LET s0 == [db |-> d, tx |-> EmptyTx]
        s1 == initialize_schema(s0)
    IN  seed_admin(s1, "admin", hash_password("admin123", salt))

\* a startup whose bcrypt salt is drawn from S
StartupWith(w, S) ==
    /\ ~running[w]
    /\ \E salt \in S :
         LET s2 == startup_event(db, salt)
         IN  /\ db' = s2.db
             /\ txn' = [txn EXCEPT ![w] = s2.tx]
    /\ running' = [running EXCEPT ![w] = TRUE]
    /\ UNCHANGED <<now, pc, issued, req, resp, race>>

Startup(w) == StartupWith(w, Salts)

\* shutdown_event: disconnect closes the connection; the server discards
\* what the connection had not committed.  A pair of raced signups is
\* observed only while both processes stay up.
Shutdown(w) ==
    /\ running[w]
    /\ pc[w] = "idle"
    /\ running' = [running EXCEPT ![w] = FALSE]
    /\ txn' = [txn EXCEPT ![w] = EmptyTx]
    /\ race' = [race EXCEPT ![w] = NoRace]
    /\ UNCHANGED <<now, db, pc, issued, req, resp>>

\* datetime.utcnow() advances
Tick ==
    /\ now + TickHours <= MaxClock
    /\ now' = now + TickHours
    /\ UNCHANGED <<db, txn, running, pc, issued, req, resp, race>>

StudentSignup(w, r) ==
    \E salt \in Salts : Handle(w, r, student_signup(Conn(w), r, now, salt))
StudentLogin(w, r) == Handle(w, r, student_login(Conn(w), r, now))
AdminLogin(w, r) == Handle(w, r, admin_login(Conn(w), r, now))
GetCourses(w, r) == Handle(w, r, get_courses(Conn(w), r, now))
CreateCourse(w, r) == Handle(w, r, create_course_endpoint(Conn(w), r, now))
UpdateCourse(w, r) == Handle(w, r, update_course_endpoint(Conn(w), r, now))
DeleteCourse(w, r) == Handle(w, r, delete_course_endpoint(Conn(w), r, now))
GetStudents(w, r) == Handle(w, r, get_students(Conn(w), r, now))
EnrollStudent(w, r) == Handle(w, r, enroll_student_endpoint(Conn(w), r, now))
UnenrollStudent(w, r) ==
    Handle(w, r, unenroll_student_endpoint(Conn(w), r, now))
GetStudentCourses(w, r) ==
    Handle(w, r, get_student_courses_endpoint(Conn(w), r, now))
GetCourseStudents(w, r) ==
    Handle(w, r, get_course_students_endpoint(Conn(w), r, now))

Init ==
    /\ now = 0
    /\ db = EmptyDb
    /\ txn = [w \in Workers |-> EmptyTx]
    /\ running = [w \in Workers |-> FALSE]
    /\ pc = [w \in Workers |-> "idle"]
    /\ issued = {}
    /\ req = [w \in Workers |-> NoReq]
    /\ resp = [w \in Workers |-> NoResp]
    /\ race = [w \in Workers |-> NoRace]

\* one service process
Next ==
    \/ Tick
    \/ Startup("w1")
    \/ Shutdown("w1")
    \/ Respond("w1")
    \/ \E r \in SignupReqs : StudentSignup("w1", r)
    \/ \E r \in StudentLoginReqs : StudentLogin("w1", r)
    \/ \E r \in AdminLoginReqs : AdminLogin("w1", r)
    \/ \E r \in GetCoursesReqs : GetCourses("w1", r)
    \/ \E r \in CreateCourseReqs(SentHeaders) : CreateCourse("w1", r)
    \/ \E r \in UpdateCourseReqs(SentHeaders) : UpdateCourse("w1", r)
    \/ \E r \in DeleteCourseReqs(SentHeaders) : DeleteCourse("w1", r)
    \/ \E r \in GetStudentsReqs(SentHeaders) : GetStudents("w1", r)
    \/ \E r \in EnrollReqs(SentHeaders) : EnrollStudent("w1", r)
    \/ \E r \in UnenrollReqs(SentHeaders) : UnenrollStudent("w1", r)
    \/ \E r \in StudentCoursesReqs(SentHeaders) : GetStudentCourses("w1", r)
    \/ \E r \in CourseStudentsReqs(SentHeaders) : GetCourseStudents("w1", r)

Spec == Init /\ [][Next]_vars

\* -------------------------------------------------------------------
\* two service processes, each with its own connection (READ COMMITTED):
\* a statement sees committed rows and its own transaction's rows; an
\* INSERT whose unique key is held by another open transaction waits
\* -------------------------------------------------------------------
Other(w) == CHOOSE o \in Workers : o # w

\* student_signup through the SELECT of get_student_by_email
SignupBegin(w, r) ==
    /\ running[w]
    /\ pc[w] = "idle"
    /\ LET pre == signup_check(Conn(w), r)
           o == Other(w)
           both == pc[o] = "signup_insert" /\ req[o].email = r.email
       IN  IF pre.status # 0
           THEN /\ resp' = [resp EXCEPT ![w] = Response(r, pre)]
                /\ pc' = [pc EXCEPT ![w] = "respond"]
                /\ UNCHANGED <<req, race>>
           ELSE /\ req' = [req EXCEPT ![w] = r]
                /\ pc' = [pc EXCEPT ![w] = "signup_insert"]
                /\ race' = IF both
                           THEN [x \in Workers |->
                                   [email |-> r.email, status |-> 0]]
                           ELSE [race EXCEPT ![w] = NoRace]
                /\ UNCHANGED resp
    /\ UNCHANGED <<now, db, txn, running, issued>>

\* student_signup from the INSERT of create_student to the response; the
\* INSERT waits while another transaction holds the same e-mail uncommitted
SignupFinish(w) ==
    /\ pc[w] = "signup_insert"
    /\ ~\E s \in txn[Other(w)].students : s.email = req[w].email
    /\ \E salt \in Salts :
         LET out == signup_create(Conn(w), req[w], now, salt)
         IN  /\ Bounded(out)
             /\ db' = out.st.db
             /\ txn' = [txn EXCEPT ![w] = out.st.tx]
             /\ issued' = issued \cup out.tokens
             /\ resp' = [resp EXCEPT ![w] = Response(req[w], out)]
             /\ race' = IF race[w].email = req[w].email
                        THEN [race EXCEPT ![w].status = out.status]
                        ELSE race
    /\ pc' = [pc EXCEPT ![w] = "respond"]
    /\ req' = [req EXCEPT ![w] = NoReq]
    /\ UNCHANGED <<now, running>>

NextRace ==
    \E w \in Workers :
        \/ Startup(w)
        \/ Shutdown(w)
        \/ Respond(w)
        \/ \E r \in SignupReqs : SignupBegin(w, r)
        \/ SignupFinish(w)
        \/ \E r \in AdminLoginReqs : AdminLogin(w, r)
        \/ \E r \in UnenrollReqs(SentHeaders) : UnenrollStudent(w, r)

SpecRace == Init /\ [][NextRace]_vars

\* -------------------------------------------------------------------
\* two service processes enrolling, unenrolling and deleting courses.
\* PostgreSQL row locks: an INSERT ... ON CONFLICT waits while another open
\* transaction holds the same (student_id, course_id) uncommitted; a DELETE
\* of a course waits while another open transaction has updated the row or
\* inserted an enrollment that references it (FOR KEY SHARE); an UPDATE
\* waits for another transaction's UPDATE of the row
\* -------------------------------------------------------------------
PairPending(w, s, c) ==
    \E o \in Workers \ {w} :
        \E e \in txn[o].enrollments : e.student_id = s /\ e.course_id = c

CourseUpdatePending(w, c) ==
    /\ \E y \in db.courses : y.id = c
    /\ \E o \in Workers \ {w} : \E x \in txn[o].courses : x.id = c

CourseReferencePending(w, c) ==
    /\ \E y \in db.courses : y.id = c
    /\ \E o \in Workers \ {w} : \E e \in txn[o].enrollments : e.course_id = c

EmailPending(w, email) ==
    \E o \in Workers \ {w} : \E s \in txn[o].students : s.email = email

\* the headers of the administrators' clients
AdminHeaders ==
    {Header("Bearer", t) : t \in {x \in issued : x.payload.type = "admin"}}

\* observation of two enrolls of one pair, of a committed student and a
\* committed course and without a row yet, that were both past the course
\* check before either inserted
NoEnrollRace ==
    [email |-> NoEmail, status |-> 0, pair |-> <<0, 0>>, raced |-> FALSE,
     detail |-> "", rows |-> 0, course_gone |-> FALSE]

\* every enrollment row there is: committed, or pending in some connection
AllEnrollmentRows ==
    db.enrollments \cup UNION {txn[w].enrollments : w \in Workers}

\* enroll_student through the SELECT of get_course_by_id
EnrollBegin(w, r) ==
    /\ running[w]
    /\ pc[w] = "idle"
    /\ LET pre == enroll_check(Conn(w), r, now)
           o == Other(w)
           both == /\ pc[o] = "enroll_insert"
                   /\ req[o].student_id = r.student_id
                   /\ req[o].course_id = r.course_id
                   /\ \E s \in db.students : s.id = r.student_id
                   /\ \E c \in db.courses : c.id = r.course_id
                   /\ ~\E e \in AllEnrollmentRows :
                          /\ e.student_id = r.student_id
                          /\ e.course_id = r.course_id
       IN  IF pre.status # 0
           THEN /\ resp' = [resp EXCEPT ![w] = Response(r, pre)]
                /\ pc' = [pc EXCEPT ![w] = "respond"]
                /\ UNCHANGED <<req, race>>
           ELSE /\ req' = [req EXCEPT ![w] = r]
                /\ pc' = [pc EXCEPT ![w] = "enroll_insert"]
                /\ race' = IF both
                           THEN [x \in Workers |->
                                   [NoEnrollRace EXCEPT
                                      !.pair = <<r.student_id, r.course_id>>,
                                      !.raced = TRUE]]
                           ELSE IF /\ race[w] # NoRace
                                   /\ race[w].raced
                                   /\ race[w].pair #
                                          <<r.student_id, r.course_id>>
                           THEN race
                           ELSE [race EXCEPT ![w] =
                                   [NoEnrollRace EXCEPT !.pair =
                                      <<r.student_id, r.course_id>>]]
                /\ UNCHANGED resp
    /\ UNCHANGED <<now, db, txn, running, issued>>

\* enroll_student from the INSERT to the response
EnrollFinish(w) ==
    /\ pc[w] = "enroll_insert"
    /\ ~PairPending(w, req[w].student_id, req[w].course_id)
    /\ LET out == enroll_insert(Conn(w), req[w], now)
       IN  /\ out.st.db.seq.enrollments <= MaxRaceEnrollments + 1
           /\ db' = out.st.db
           /\ txn' = [txn EXCEPT ![w] = out.st.tx]
           /\ resp' = [resp EXCEPT ![w] = Response(req[w], out)]
           /\ race' = IF race[w].pair #
                             <<req[w].student_id, req[w].course_id>>
                      THEN race
                      ELSE
                      [race EXCEPT
                         ![w].status = out.status,
                         ![w].detail = out.detail,
                         ![w].rows =
                             Cardinality(
                                 {e \in out.st.db.enrollments
                                        \cup out.st.tx.enrollments
                                        \cup txn[Other(w)].enrollments :
                                    /\ e.student_id = req[w].student_id
                                    /\ e.course_id = req[w].course_id}),
                         ![w].course_gone =
                             get_course_by_id(Conn(w),
                                              req[w].course_id).rows = {}]
    /\ pc' = [pc EXCEPT ![w] = "respond"]
    /\ req' = [req EXCEPT ![w] = NoReq]
    /\ UNCHANGED <<now, running, issued>>

\* unenroll_student; the observation of a raced pair ends when the pair is
\* unenrolled
UnenrollObserved(w, r) ==
    LET out == unenroll_student_endpoint(Conn(w), r, now)
    IN  /\ running[w]
        /\ pc[w] = "idle"
        /\ db' = out.st.db
        /\ txn' = [txn EXCEPT ![w] = out.st.tx]
        /\ resp' = [resp EXCEPT ![w] = Response(r, out)]
        /\ pc' = [pc EXCEPT ![w] = "respond"]
        /\ race' = [x \in Workers |->
                      IF /\ race[x] # NoRace
                         /\ race[x].pair = <<r.student_id, r.course_id>>
                      THEN NoEnrollRace
                      ELSE race[x]]
        /\ UNCHANGED <<now, running, issued, req>>

NextEnroll ==
    \E w \in Workers :
        \/ Startup(w)
        \/ Shutdown(w)
        \/ Respond(w)
        \/ \E r \in SignupReqs :
               /\ r.email = EmailA /\ r.password = "secret1"
               /\ ~EmailPending(w, r.email)
               /\ StudentSignup(w, r)
        \/ \E r \in AdminLoginReqs :
               /\ r.username = "admin" /\ r.password = "admin123"
               /\ AdminLogin(w, r)
        \/ \E r \in CreateCourseReqs(AdminHeaders) :
               r.title = "T" /\ CreateCourse(w, r)
        \/ \E r \in UpdateCourseReqs(AdminHeaders) :
               /\ r.title = "U"
               /\ ~CourseUpdatePending(w, r.course_id)
               /\ UpdateCourse(w, r)
        \/ \E r \in DeleteCourseReqs(AdminHeaders) :
               /\ ~CourseUpdatePending(w, r.course_id)
               /\ ~CourseReferencePending(w, r.course_id)
               /\ DeleteCourse(w, r)
        \/ \E r \in EnrollReqs(AdminHeaders) : EnrollBegin(w, r)
        \/ EnrollFinish(w)
        \/ \E r \in UnenrollReqs(AdminHeaders) : UnenrollObserved(w, r)

SpecEnroll == Init /\ [][NextEnroll]_vars

\* -------------------------------------------------------------------
\* token issue and verification over a clock of finer steps
\* -------------------------------------------------------------------
TokenTick ==
    /\ now + TokenTickHours <= TokenMaxClock
    /\ now' = now + TokenTickHours
    /\ UNCHANGED <<db, txn, running, pc, issued, req, resp, race>>

\* auth_manager.verify_token(token) on a token a client presents
VerifyToken(w, token) ==
    /\ running[w]
    /\ pc[w] = "idle"
    /\ resp' = [resp EXCEPT ![w] =
                  [op |-> "verify_token",
                   status |-> IF verify_token(token, now) = NoPayload
                              THEN 401 ELSE 200,
                   detail |-> "", tokens |-> {token},
                   body |-> {verify_token(token, now)}]]
    /\ pc' = [pc EXCEPT ![w] = "respond"]
    /\ UNCHANGED <<now, db, txn, running, issued, req, race>>

NextToken ==
    \/ TokenTick
    \/ Startup("w1")
    \/ Shutdown("w1")
    \/ Respond("w1")
    \/ \E r \in SignupReqs : StudentSignup("w1", r)
    \/ \E r \in StudentLoginReqs : StudentLogin("w1", r)
    \/ \E r \in AdminLoginReqs : AdminLogin("w1", r)
    \/ \E token \in Presentable : VerifyToken("w1", token)

SpecToken == Init /\ [][NextToken]_vars

\* -------------------------------------------------------------------
\* One process and several courses: deletion of one course among others.
\* -------------------------------------------------------------------
CascadeCourseIds == 1..(MaxCascadeCourses + 1)

CascadeDeleteReqs(H) ==
    [op : {"delete_course"}, auth : H, course_id : CascadeCourseIds]
CascadeEnrollReqs(H) ==
    [op : {"enroll_student"}, auth : H, student_id : StudentIds,
     course_id : CascadeCourseIds]
CascadeUnenrollReqs(H) ==
    [op : {"unenroll_student"}, auth : H, student_id : StudentIds,
     course_id : CascadeCourseIds]
CascadeUpdateReqs(H) ==
    [op : {"update_course"}, auth : H, course_id : CascadeCourseIds,
     title : Titles, description : Descriptions]

\* the enrollment rows of course c that a connection sees
CourseRows(st, c) == {e \in ViewEnrollments(st) : e.course_id = c}

\* process w handles request r to completion with outcome out; a course
\* deletion is remembered with the number of rows the course had, an
\* unenroll with the number of rows the pair had
CascadeHandle(w, r, out) ==
    /\ running[w]
    /\ pc[w] = "idle"
    /\ out.st.db.seq.students <= MaxStudents + 1
    /\ out.st.db.seq.courses <= MaxCascadeCourses + 1
    /\ out.st.db.seq.enrollments <= MaxEnrollments + 1
    /\ Cardinality(issued \cup out.tokens) <= MaxTokens
    /\ db' = out.st.db
    /\ txn' = [txn EXCEPT ![w] = out.st.tx]
    /\ issued' = issued \cup out.tokens
    /\ resp' = [resp EXCEPT ![w] = Response(r, out)]
    /\ pc' = [pc EXCEPT ![w] = "respond"]
    /\ race' = [race EXCEPT ![w] =
                  IF r.op = "delete_course"
                  THEN [NoEnrollRace EXCEPT
                          !.pair = <<0, r.course_id>>,
                          !.status = out.status,
                          !.rows = Cardinality(CourseRows(Conn(w),
                                                          r.course_id))]
                  ELSE IF r.op = "unenroll_student"
                  THEN [NoEnrollRace EXCEPT
                          !.pair = <<r.student_id, r.course_id>>,
                          !.status = out.status,
                          !.rows = Cardinality(
                              {e \in CourseRows(Conn(w), r.course_id) :
                                   e.student_id = r.student_id})]
                  ELSE NoRace]
    /\ UNCHANGED <<now, running, req>>

NextCascade ==
    \/ Startup("w1")
    \/ Shutdown("w1")
    \/ Respond("w1")
    \/ \E r \in SignupReqs : \E salt \in Salts :
           /\ r.password = "secret1"
           /\ EmailStr(r.email)
           /\ CascadeHandle("w1", r,
                            student_signup(Conn("w1"), r, now, salt))
    \/ \E r \in AdminLoginReqs :
           /\ r.username = "admin" /\ r.password = "admin123"
           /\ CascadeHandle("w1", r, admin_login(Conn("w1"), r, now))
    \/ \E r \in CreateCourseReqs(AdminHeaders) :
           /\ r.title = "T"
           /\ CascadeHandle("w1", r,
                            create_course_endpoint(Conn("w1"), r, now))
    \/ \E r \in CascadeEnrollReqs(AdminHeaders) :
           CascadeHandle("w1", r,
                         enroll_student_endpoint(Conn("w1"), r, now))
    \/ \E r \in CascadeDeleteReqs(AdminHeaders) :
           CascadeHandle("w1", r,
                         delete_course_endpoint(Conn("w1"), r, now))
    \/ \E r \in StudentCoursesReqs(AdminHeaders) :
           CascadeHandle("w1", r,
                         get_student_courses_endpoint(Conn("w1"), r, now))
    \/ \E r \in CascadeUpdateReqs(AdminHeaders) :
           /\ r.title = "U"
           /\ CascadeHandle("w1", r,
                            update_course_endpoint(Conn("w1"), r, now))
    \/ \E r \in CascadeUnenrollReqs(AdminHeaders) :
           CascadeHandle("w1", r,
                         unenroll_student_endpoint(Conn("w1"), r, now))

SpecCascade == Init /\ [][NextCascade]_vars

\* -------------------------------------------------------------------
\* AuthManager.validate_email as a function of its argument.
\* -------------------------------------------------------------------
EmailChars == {"t", "@", "."}

\* every string over EmailChars of at most MaxEmailLen characters
EmailStrings == UNION {[1..n -> EmailChars] : n \in 0..MaxEmailLen}

InitEmail ==
    /\ now = 0
    /\ db = EmptyDb
    /\ txn = [w \in Workers |-> EmptyTx]
    /\ running = [w \in Workers |-> FALSE]
    /\ pc = [w \in Workers |-> "idle"]
    /\ issued = {}
    /\ \E email \in EmailStrings :
           req = [w \in Workers |->
                    IF w = "w1"
                    THEN [op |-> "validate_email", email |-> email]
                    ELSE NoReq]
    /\ resp = [w \in Workers |-> NoResp]
    /\ race = [w \in Workers |-> NoRace]

\* auth_manager.validate_email(email) is called and returns
ValidateEmail(w) ==
    /\ pc[w] = "idle"
    /\ req[w].op = "validate_email"
    /\ resp' = [resp EXCEPT ![w] =
                  [op |-> "validate_email", status |-> 0, detail |-> "",
                   tokens |-> {}, body |-> {validate_email(req[w].email)}]]
    /\ pc' = [pc EXCEPT ![w] = "respond"]
    /\ UNCHANGED <<now, db, txn, running, issued, req, race>>

NextEmail == ValidateEmail("w1")

SpecEmail == InitEmail /\ [][NextEmail]_vars

\* -------------------------------------------------------------------
\* Restarts: every startup hashes the admin password under a fresh salt.
\* -------------------------------------------------------------------
BootSalts == {1, 2}

NextBoot ==
    \E w \in Workers :
        \/ StartupWith(w, BootSalts)
        \/ Shutdown(w)
        \/ Respond(w)
        \/ \E r \in SignupReqs :
               /\ r.email = EmailA /\ r.password = "secret1"
               /\ ~EmailPending(w, r.email)
               /\ StudentSignup(w, r)
        \/ \E r \in AdminLoginReqs :
               /\ r.username = "admin" /\ r.password = "admin123"
               /\ AdminLogin(w, r)
        \/ \E r \in CreateCourseReqs(AdminHeaders) :
               r.title = "T" /\ CreateCourse(w, r)
        \/ \E r \in EnrollReqs(AdminHeaders) :
               /\ ~PairPending(w, r.student_id, r.course_id)
               /\ EnrollStudent(w, r)
        \/ \E r \in UnenrollReqs(AdminHeaders) : UnenrollStudent(w, r)

SpecBoot == Init /\ [][NextBoot]_vars

\* -------------------------------------------------------------------
\* Store failures: a store call of a handler raises (the server is gone, a
\* statement times out), beside the constraint violations modelled above.
\* -------------------------------------------------------------------
\* str(e) of the exceptions psycopg2 raises
StoreErrors ==
    {"server closed the connection unexpectedly",
     "duplicate key value violates unique constraint",
     "violates foreign key constraint"}

\* the detail of the HTTPException(500) in each handler's "except Exception"
FailureDetail(op) ==
    CASE op = "student_signup" -> "Signup failed"
      [] op = "student_login" -> "Login failed"
      [] op = "admin_login" -> "Login failed"
      [] op = "get_courses" -> "Failed to fetch courses"
      [] op = "create_course" -> "Failed to create course"
      [] op = "update_course" -> "Failed to update course"
      [] op = "delete_course" -> "Failed to delete course"
      [] op = "get_students" -> "Failed to fetch students"
      [] op = "enroll_student" -> "Failed to enroll student"
      [] op = "unenroll_student" -> "Failed to unenroll student"
      [] op = "get_student_courses" -> "Failed to fetch student courses"
      [] op = "get_course_students" -> "Failed to fetch course students"

\* every endpoint that uses the store
Dispatch(st, r, t, salt) ==
    CASE r.op = "student_signup" -> student_signup(st, r, t, salt)
      [] r.op = "student_login" -> student_login(st, r, t)
      [] r.op = "admin_login" -> admin_login(st, r, t)
      [] r.op = "get_courses" -> get_courses(st, r, t)
      [] OTHER -> Endpoint(st, r, t)

AllReqs(H) ==
    SignupReqs \cup StudentLoginReqs \cup AdminLoginReqs \cup GetCoursesReqs
        \cup CreateCourseReqs(H) \cup UpdateCourseReqs(H)
        \cup DeleteCourseReqs(H) \cup GetStudentsReqs(H) \cup EnrollReqs(H)
        \cup UnenrollReqs(H) \cup StudentCoursesReqs(H)
        \cup CourseStudentsReqs(H)

\* a handler that answered with the text of the exception, as health_check
\* does
on_store_error_Leaky(st, r, t, salt, e) ==
    LET normal == Dispatch(st, r, t, salt)
    IN  IF normal.queries = 0 THEN normal
        ELSE Out(Rollback(st), 500, e, {}, {}, 1)

\* the handler of r when its store call raises e: a request answered before
\* any store call is answered as ever; otherwise execute_query rolls back
\* and re-raises, the Database method re-raises, and the handler's
\* "except Exception" logs e and raises its own HTTPException(500)
on_store_error(st, r, t, salt, e) ==
    LET normal == Dispatch(st, r, t, salt)
    IN  IF normal.queries = 0 THEN normal
        ELSE Out(Rollback(st), 500, FailureDetail(r.op), {}, {}, 1)

StoreFault(w, r) ==
    \E salt \in Salts : \E e \in StoreErrors :
        /\ Dispatch(Conn(w), r, now, salt).queries > 0
        /\ Handle(w, r, on_store_error(Conn(w), r, now, salt, e))

NextFault ==
    \/ Startup("w1")
    \/ Respond("w1")
    \/ \E r \in SignupReqs :
           /\ r.password = "secret1" /\ EmailStr(r.email)
           /\ StudentSignup("w1", r)
    \/ \E r \in AdminLoginReqs :
           /\ r.username = "admin" /\ r.password = "admin123"
           /\ AdminLogin("w1", r)
    \/ \E r \in CreateCourseReqs(AdminHeaders) :
           r.title = "T" /\ CreateCourse("w1", r)
    \/ \E r \in EnrollReqs(AdminHeaders) : EnrollStudent("w1", r)
    \/ \E r \in AllReqs(SentHeaders) : StoreFault("w1", r)

SpecFault == Init /\ [][NextFault]_vars

\* -------------------------------------------------------------------
\* AuthManager.hash_password and verify_password as functions, and a login
\* against an account whose password_hash column holds any string.
\* -------------------------------------------------------------------
\* two passwords of 73 characters that differ in the last one only
LongA == "aaaaaaaaaaaaaaaaaaaaaaaaaaaaaaaaaaaaaaaaaaaaaaaaaaaaaaaaaaaaaaaaaaaaaaaab"
LongB == "aaaaaaaaaaaaaaaaaaaaaaaaaaaaaaaaaaaaaaaaaaaaaaaaaaaaaaaaaaaaaaaaaaaaaaaac"

HashPasswords == {"secret1", "admin123", "abc", LongA, LongB}

\* strings pwd_context cannot identify as bcrypt hashes: the empty string,
\* a plaintext, a hash of another scheme
MalformedHashes ==
    {[scheme |-> "none", salt |-> 0, digest |-> <<0, "">>]}
        \cup {[scheme |-> "none", salt |-> 0, digest |-> <<0, p>>] :
                 p \in HashPasswords}
        \cup {[scheme |-> "md5_crypt", salt |-> s, digest |-> <<s, p>>] :
                 s \in BootSalts, p \in HashPasswords}

StoredHashes ==
    {hash_password(p, s) : p \in HashPasswords, s \in BootSalts}
        \cup MalformedHashes

\* the store holds one account, whose hash is h
AccountWith(h) ==
    [EmptyDb EXCEPT
       !.schema = TRUE,
       !.students = {[id |-> 1, email |-> EmailA, password_hash |-> h,
                      name |-> "Test Student", created_at |-> 0]},
       !.seq.students = 2]

InitHash ==
    /\ now = 0
    /\ \E h \in StoredHashes : db = AccountWith(h)
    /\ txn = [w \in Workers |-> EmptyTx]
    /\ running = [w \in Workers |-> w = "w1"]
    /\ pc = [w \in Workers |-> "idle"]
    /\ issued = {}
    /\ \E p \in HashPasswords :
           req = [w \in Workers |->
                    IF w = "w1"
                    THEN [op |-> "student_login", email |-> EmailA,
                          password |-> p]
                    ELSE NoReq]
    /\ resp = [w \in Workers |-> NoResp]
    /\ race = [w \in Workers |-> NoRace]

\* auth_manager.verify_password(password, stored hash) is called and returns
VerifyPassword(w) ==
    /\ pc[w] = "idle"
    /\ req[w].op = "student_login"
    /\ \E s \in db.students :
           resp' = [resp EXCEPT ![w] =
                      [op |-> "verify_password", status |-> 0, detail |-> "",
                       tokens |-> {},
                       body |-> {verify_password(req[w].password,
                                                 s.password_hash)}]]
    /\ pc' = [pc EXCEPT ![w] = "respond"]
    /\ UNCHANGED <<now, db, txn, running, issued, req, race>>

\* the login of the account with the password at hand
LoginHash(w) ==
    /\ req[w].op = "student_login"
    /\ Handle(w, req[w], student_login(Conn(w), req[w], now))

NextHash ==
    \/ VerifyPassword("w1")
    \/ LoginHash("w1")
    \/ Respond("w1")

SpecHash == InitHash /\ [][NextHash]_vars

\* -------------------------------------------------------------------
\* Config.__init__ as a function of the mode and the environment.
\* -------------------------------------------------------------------
Unset == [set |-> FALSE, value |-> ""]
Set(v) == [set |-> TRUE, value |-> v]

\* os.getenv(name, default); os.getenv(name) is getenv(env, name, None)
None == "None"
getenv(env, name, default) ==
    IF env[name].set THEN env[name].value ELSE default

Modes == {"prod", "test", "staging"}

Environments ==
    [POSTGRES_URL : {Unset, Set(""), Set("postgresql://db/prod")},
     TEST_DATABASE_URL : {Unset, Set(""), Set("postgresql://db/test")},
     JWT_SECRET : {Unset, Set("k")},
     LOG_LEVEL : {Unset, Set("WARNING")}]

NoConfig ==
    [raised |-> TRUE, mode |-> None, is_production |-> FALSE,
     database_url |-> None, jwt_secret |-> None, jwt_algorithm |-> None,
     jwt_expiration_hours |-> 0, log_level |-> None]

\* the constructor without the test of the connection string
Config_NoCheck(mode, env) ==
    LET is_production == mode = "prod"
    IN  [raised |-> FALSE, mode |-> mode, is_production |-> is_production,
         database_url |->
             IF is_production THEN getenv(env, "POSTGRES_URL", None)
             ELSE getenv(env, "TEST_DATABASE_URL",
                         "postgresql://localhost/course_management_test"),
         jwt_secret |-> getenv(env, "JWT_SECRET", jwt_secret),
         jwt_algorithm |-> jwt_algorithm,
         jwt_expiration_hours |-> jwt_expiration_hours,
         log_level |-> getenv(env, "LOG_LEVEL",
                              IF is_production THEN "INFO" ELSE "DEBUG")]

\* "not self.database_url" holds for None and for the empty string
Config(mode, env) ==
    LET is_production == mode = "prod"
        database_url ==
            IF is_production THEN getenv(env, "POSTGRES_URL", None)
            ELSE getenv(env, "TEST_DATABASE_URL",
                        "postgresql://localhost/course_management_test")
    IN  IF is_production /\ (database_url = None \/ database_url = "")
        THEN NoConfig
        ELSE [raised |-> FALSE, mode |-> mode,
              is_production |-> is_production,
              database_url |-> database_url,
              jwt_secret |-> getenv(env, "JWT_SECRET", jwt_secret),
              jwt_algorithm |-> jwt_algorithm,
              jwt_expiration_hours |-> jwt_expiration_hours,
              log_level |-> getenv(env, "LOG_LEVEL",
                                   IF is_production THEN "INFO"
                                   ELSE "DEBUG")]

InitConfig ==
    /\ now = 0
    /\ db = EmptyDb
    /\ txn = [w \in Workers |-> EmptyTx]
    /\ running = [w \in Workers |-> FALSE]
    /\ pc = [w \in Workers |-> "idle"]
    /\ issued = {}
    /\ \E mode \in Modes : \E env \in Environments :
           req = [w \in Workers |->
                    IF w = "w1"
                    THEN [op |-> "Config", mode |-> mode, env |-> env]
                    ELSE NoReq]
    /\ resp = [w \in Workers |-> NoResp]
    /\ race = [w \in Workers |-> NoRace]

\* config = Config(mode=MODE) runs
Construct(w) ==
    /\ pc[w] = "idle"
    /\ req[w].op = "Config"
    /\ resp' = [resp EXCEPT ![w] =
                  [op |-> "Config", status |-> 0, detail |-> "",
                   tokens |-> {},
                   body |-> {Config(req[w].mode, req[w].env)}]]
    /\ pc' = [pc EXCEPT ![w] = "respond"]
    /\ UNCHANGED <<now, db, txn, running, issued, req, race>>

NextConfig == Construct("w1")

SpecConfig == InitConfig /\ [][NextConfig]_vars

\* ===================================================================
\* properties
\* ===================================================================
\* process w is up and between requests: the states in which a request is
\* taken
Ready(w) == running[w] /\ pc[w] = "idle"

AdminOnlyReqs(H) ==
    CreateCourseReqs(H) \cup UpdateCourseReqs(H) \cup DeleteCourseReqs(H)
        \cup EnrollReqs(H) \cup UnenrollReqs(H) \cup GetStudentsReqs(H)
        \cup CourseStudentsReqs(H)
GatedReqs(H) == AdminOnlyReqs(H) \cup StudentCoursesReqs(H)
AdminOnlyOps ==
    {"create_course", "update_course", "delete_course", "enroll_student",
     "unenroll_student", "get_students", "get_course_students"}
GatedOps == AdminOnlyOps \cup {"get_student_courses"}

\* the header is "Bearer <token>" (scheme in any letter case)
BearerForm(h) ==
    h.present /\ h.n = 2 /\ h.scheme \in {"Bearer", "BEARER", "bearer"}

\* C1: for every endpoint behind get_current_user, a request whose
\* Authorization header is absent, is not "Bearer <token>", or carries a
\* token that verify_token rejects gets 401, runs no store statement and
\* leaves the store, the open transaction and the sequences as they were.
C1_GateRejects ==
    \A w \in Workers :
        Ready(w) =>
            \A r \in GatedReqs(Headers) :
                (~BearerForm(r.auth)
                    \/ verify_token(r.auth.token, now) = NoPayload)
                => LET out == Endpoint(Conn(w), r, now)
                   IN  /\ out.status = 401
                       /\ out.queries = 0
                       /\ out.st = Conn(w)
                       /\ out.body = {}
                       /\ out.tokens = {}

\* a gated request was answered 401 for its token while an issued token has
\* expired and the store holds a student
C1_Witness ==
    \E w \in Workers :
        /\ pc[w] = "respond"
        /\ resp[w].op \in GatedOps
        /\ resp[w].status = 401
        /\ resp[w].detail = "Invalid or expired token"
        /\ \E t \in issued : verify_token(t, now) = NoPayload
        /\ ViewStudents(Conn(w)) # {}

\* C2: an admin-only operation called with a valid student token gets 403
\* and changes no student, course, enrollment, sequence or open
\* transaction, whatever ids it names.
C2_StudentForbidden ==
    \A w \in Workers :
        Ready(w) =>
            \A r \in AdminOnlyReqs(Headers) :
                (/\ BearerForm(r.auth)
                 /\ verify_token(r.auth.token, now) # NoPayload
                 /\ verify_token(r.auth.token, now).type = "student")
                => LET out == Endpoint(Conn(w), r, now)
                   IN  /\ out.status = 403
                       /\ out.st = Conn(w)
                       /\ out.body = {}

\* an admin-only operation was answered 403 while a course exists
C2_Witness ==
    \E w \in Workers :
        /\ pc[w] = "respond"
        /\ resp[w].op \in AdminOnlyOps
        /\ resp[w].status = 403
        /\ ViewCourses(Conn(w)) # {}
        /\ \E t \in issued : verify_token(t, now).type = "student"

\* C3: GET /students/{id}/courses answers 200 with the student's courses
\* exactly when the verified token is an admin's, or a student's whose
\* subject is {id}; any other verified caller gets 403 and no rows.
C3_SelfOrAdmin ==
    \A w \in Workers :
        Ready(w) =>
            \A r \in StudentCoursesReqs(Headers) :
                LET p == verify_token(r.auth.token, now)
                    out == Endpoint(Conn(w), r, now)
                    allowed == \/ p.type = "admin"
                               \/ /\ p.type = "student"
                                  /\ p.sub = str(r.student_id)
                IN  (BearerForm(r.auth) /\ p # NoPayload) =>
                        /\ allowed =>
                             /\ out.status = 200
                             /\ out.body =
                                  get_student_courses(Conn(w),
                                                      r.student_id).rows
                        /\ ~allowed => out.status = 403 /\ out.body = {}
                        /\ out.st = Conn(w)

\* a student asked for another student's courses and was answered 403
C3_Witness ==
    \E w \in Workers :
        /\ pc[w] = "respond"
        /\ resp[w].op = "get_student_courses"
        /\ resp[w].status = 403
        /\ resp[w].body = {}
        /\ \E t \in issued : verify_token(t, now).type = "student"

\* the role an issuing endpoint gives its tokens
RoleOf(op) == IF op = "admin_login" THEN "admin" ELSE "student"

\* every token handed out is what create_access_token makes of its claims
\* and its time of issue, and verifies exactly through the hour
\* jwt_expiration_hours after it
C4_Lifetime ==
    \A tok \in issued :
        LET p == tok.payload
        IN  /\ tok = create_access_token(
                         [sub |-> p.sub, email |-> p.email,
                          username |-> p.username], p.type, p.iat)
            /\ p.iat <= now
            /\ now <= p.iat + jwt_expiration_hours =>
                   /\ verify_token(tok, now).sub = p.sub
                   /\ verify_token(tok, now).type = p.type
            /\ now > p.iat + jwt_expiration_hours =>
                   verify_token(tok, now) = NoPayload

\* a token is issued at the current time for the row and the role of the
\* response that carries it; a token verify_token rejects stays rejected
C4_Step ==
    /\ \A tok \in issued' \ issued :
           /\ tok.payload.iat = now
           /\ \E w \in Workers :
                  /\ resp'[w].tokens = {tok}
                  /\ resp'[w].status = 200
                  /\ tok.payload.type = RoleOf(resp'[w].op)
                  /\ \E row \in resp'[w].body : tok.payload.sub = str(row.id)
    /\ now' >= now
    /\ \A tok \in issued :
           verify_token(tok, now) = NoPayload =>
               verify_token(tok, now') = NoPayload

\* C4: a token issued by create_access_token at time t verifies with the
\* subject and type it was issued for at every time up to t + 24 h, gives
\* None at every later time, and once rejected as expired is never accepted
\* again.
C4_TokenLifetime == []C4_Lifetime /\ [][C4_Step]_vars

\* verify_token has just rejected an issued token that is past its exp,
\* while another issued token is accepted in the last hour of its life
C4_Witness ==
    \E w \in Workers :
        /\ pc[w] = "respond"
        /\ resp[w].op = "verify_token"
        /\ resp[w].status = 401
        /\ resp[w].tokens \subseteq issued
        /\ \A tok \in resp[w].tokens : tok.payload.exp < now
        /\ \E tok \in issued :
               /\ tok.payload.exp = now
               /\ verify_token(tok, now) = tok.payload

\* C5: verify_token gives the payload exactly for a token the service
\* issued (signed with its secret, not altered since) whose exp is not past;
\* for every other token a client can present (not a JWT, altered payload,
\* foreign key, expired) it gives None.
C5_VerifyExact ==
    \A tok \in Presentable :
        verify_token(tok, now) =
            IF tok \in issued /\ now <= tok.payload.exp
            THEN tok.payload
            ELSE NoPayload

\* verify_token has just rejected a well-formed, unexpired token whose payload
\* is not the one that was signed
C5_Witness ==
    \E w \in Workers :
        /\ pc[w] = "respond"
        /\ resp[w].op = "verify_token"
        /\ resp[w].status = 401
        /\ resp[w].body = {NoPayload}
        /\ \E tok \in resp[w].tokens :
               /\ tok.wellformed
               /\ tok \in Tampered \ issued
               /\ now <= tok.payload.exp

\* over a step that leaves the clock alone, the store may change but the
\* verdict on every presentable token may not
C6_SameVerdict ==
    now' = now =>
        \A tok \in Presentable :
            verify_token(tok, now)' = verify_token(tok, now)

\* a call of verify_token leaves tables, sequences, open transactions and
\* the tokens in circulation as they were
C6_VerifyFrame ==
    \A tok \in Presentable :
        VerifyToken("w1", tok) => UNCHANGED <<db, txn, issued, now, running>>

\* C6: the verdict of verify_token depends on the token, the secret and the
\* time only (it is the same whatever the tables hold), and verification
\* changes nothing in the store.
C6_Stateless == [][C6_SameVerdict /\ C6_VerifyFrame]_vars

\* verify_token has just accepted a student's token although the student's
\* row is in no table any more
C6_Witness ==
    \E w \in Workers :
        /\ pc[w] = "respond"
        /\ resp[w].op = "verify_token"
        /\ resp[w].status = 200
        /\ \E tok \in resp[w].tokens :
               /\ tok.payload.type = "student"
               /\ ~\E s \in ViewStudents(Conn(w)) : str(s.id) = tok.payload.sub

\* what each endpoint would issue in a state where a request is taken: a
\* signup token names the row the signup created, a login token the row
\* whose password the request gave, with the role of the endpoint; no
\* other endpoint issues a token; every admin token in circulation names
\* an admin row
C7_Issue ==
    /\ \A w \in Workers :
        Ready(w) =>
            /\ \A r \in SignupReqs : \A salt \in Salts :
                   LET out == student_signup(Conn(w), r, now, salt)
                   IN  \A tok \in out.tokens :
                           /\ out.status = 200
                           /\ tok.payload.type = "student"
                           /\ \E s \in ViewStudents(out.st)
                                         \ ViewStudents(Conn(w)) :
                                  /\ s.email = r.email
                                  /\ verify_password(r.password,
                                                     s.password_hash)
                                  /\ tok.payload.sub = str(s.id)
            /\ \A r \in StudentLoginReqs :
                   LET out == student_login(Conn(w), r, now)
                   IN  \A tok \in out.tokens :
                           /\ out.status = 200
                           /\ tok.payload.type = "student"
                           /\ \E s \in ViewStudents(Conn(w)) :
                                  /\ s.email = r.email
                                  /\ verify_password(r.password,
                                                     s.password_hash)
                                  /\ tok.payload.sub = str(s.id)
            /\ \A r \in AdminLoginReqs :
                   LET out == admin_login(Conn(w), r, now)
                   IN  \A tok \in out.tokens :
                           /\ out.status = 200
                           /\ tok.payload.type = "admin"
                           /\ \E a \in db.admins :
                                  /\ a.username = r.username
                                  /\ verify_password(r.password,
                                                     a.password_hash)
                                  /\ tok.payload.sub = str(a.id)
            /\ \A r \in GatedReqs(Headers) :
                   Endpoint(Conn(w), r, now).tokens = {}
            /\ \A r \in GetCoursesReqs :
                   get_courses(Conn(w), r, now).tokens = {}
    /\ \A tok \in issued :
           /\ tok.payload.type \in {"student", "admin"}
           /\ tok.payload.type = "admin" =>
                  \E a \in db.admins :
                      /\ tok.payload.sub = str(a.id)
                      /\ tok.payload.username = a.username

\* a token enters circulation only in the 200 response of an issuing
\* endpoint, with that endpoint's role and the id of the row in the body
C7_Step ==
    \A tok \in issued' \ issued :
        \E w \in Workers :
            /\ pc[w] = "idle" /\ pc'[w] = "respond"
            /\ resp'[w].tokens = {tok}
            /\ resp'[w].status = 200
            /\ resp'[w].op \in
                   IF tok.payload.type = "admin"
                   THEN {"admin_login"}
                   ELSE {"student_signup", "student_login"}
            /\ \E row \in resp'[w].body : tok.payload.sub = str(row.id)

\* C7: student signup and student login issue tokens of type 'student'
\* whose sub is the id of the student created or logged in, admin login
\* issues type 'admin' with the admin's id, and so a token of type 'admin'
\* is in circulation only after an admin login with the admin's password
\* was answered 200.
C7_TokenClaims == []C7_Issue /\ [][C7_Step]_vars

\* an admin login was answered 200 with an admin token while a student's
\* token is in circulation too
C7_Witness ==
    \E w \in Workers :
        /\ pc[w] = "respond"
        /\ resp[w].op = "admin_login"
        /\ resp[w].status = 200
        /\ \E tok \in resp[w].tokens :
               /\ tok.payload.type = "admin"
               /\ tok.payload.sub = "1"
        /\ \E tok \in issued : tok.payload.type = "student"

\* C8: student login answers 200 with a token exactly when a student with
\* the e-mail exists and the password matches the stored hash; a
\* well-formed request that fails gets 401 'Invalid credentials' whether
\* the e-mail is unknown or the password wrong, the answer to a failing
\* request does not depend on what is stored, and it carries no token and
\* no row.
C8_StudentLogin ==
    \A w \in Workers :
        Ready(w) =>
            \A r \in StudentLoginReqs :
                LET out == student_login(Conn(w), r, now)
                    match == \E s \in ViewStudents(Conn(w)) :
                                 /\ s.email = r.email
                                 /\ verify_password(r.password,
                                                    s.password_hash)
                IN  /\ out.status = 200 <=> match
                    /\ out.status = 200 =>
                           /\ Cardinality(out.tokens) = 1
                           /\ \A tok \in out.tokens :
                                  verify_token(tok, now).type = "student"
                    /\ out.status # 200 =>
                           /\ out.tokens = {}
                           /\ out.body = {}
                           /\ out.status =
                                  IF EmailStr(r.email) THEN 401 ELSE 422
                           /\ EmailStr(r.email) =>
                                  out.detail = "Invalid credentials"
                    /\ out.st = Conn(w)

\* a student login was answered 401 'Invalid credentials' while a student
\* is registered
C8_Witness ==
    \E w \in Workers :
        /\ pc[w] = "respond"
        /\ resp[w].op = "student_login"
        /\ resp[w].status = 401
        /\ resp[w].detail = "Invalid credentials"
        /\ resp[w].tokens = {}
        /\ Cardinality(ViewStudents(Conn(w))) = 1

\* every student row there is: committed, or pending in some connection
AllStudentRows == db.students \cup UNION {txn[w].students : w \in Workers}

C10_RaceLoserGets400 ==
    \A w \in Workers :
        LET o == Other(w)
        IN  (/\ race[w].email # NoEmail
             /\ race[o].email = race[w].email
             /\ race[w].status # 0
             /\ race[o].status # 0)
            => {race[w].status, race[o].status} = {200, 400}

\* the header carries a token that verifies at time t with the admin role
AdminAuth(h, t) ==
    /\ BearerForm(h)
    /\ verify_token(h.token, t) # NoPayload
    /\ verify_token(h.token, t).type = "admin"

\* the enrollment rows of the pair (s, c) that a connection sees
PairRows(st, s, c) ==
    {e \in ViewEnrollments(st) : e.student_id = s /\ e.course_id = c}

EnrollRaceOver(w) ==
    /\ race[w] # NoRace /\ race[Other(w)] # NoRace
    /\ race[w].raced /\ race[Other(w)].raced
    /\ race[w].pair = race[Other(w)].pair
    /\ race[w].status # 0 /\ race[Other(w)].status # 0
    /\ ~race[w].course_gone /\ ~race[Other(w)].course_gone

\* C12: of two admin enrolls of one pair (student and course committed,
\* no row for the pair yet) that were both past the course check before either inserted, both are answered 200, one with the new
\* enrollment and the other with 'already enrolled', and the pair has
\* exactly one row when each is answered.
C12_RacedEnrolls ==
    \A w \in Workers :
        EnrollRaceOver(w) =>
            /\ race[w].status = 200 /\ race[Other(w)].status = 200
            /\ {race[w].detail, race[Other(w)].detail} =
                   {"Student enrolled successfully",
                    "Student already enrolled in this course"}
            /\ race[w].rows = 1 /\ race[Other(w)].rows = 1

\* C14: in every state, whatever the two processes interleave (an enroll
\* whose course is deleted between its course check and its INSERT
\* included), every committed enrollment row references a committed
\* student and a committed course, and every uncommitted one references
\* rows its own connection sees.
C14_ReferentialIntegrity ==
    /\ \A e \in db.enrollments :
           /\ \E s \in db.students : s.id = e.student_id
           /\ \E c \in db.courses : c.id = e.course_id
    /\ \A w \in Workers : \A e \in txn[w].enrollments :
           /\ \E s \in ViewStudents(Conn(w)) : s.id = e.student_id
           /\ \E c \in ViewCourses(Conn(w)) : c.id = e.course_id

\* the INSERT of an enroll ran after the other process had deleted the
\* course the enroll had found, and was refused
C14_Witness ==
    \E w \in Workers :
        /\ pc[w] = "respond"
        /\ resp[w].op = "enroll_student"
        /\ resp[w].status = 500
        /\ race[w] # NoRace
        /\ race[w].course_gone
        /\ \E s \in ViewStudents(Conn(w)) : s.id = race[w].pair[1]

\* C13: when an admin's delete of course c answers 200, no enrollment row
\* references c any more, committed, and no student's course list holds c;
\* the enrollment rows of the other courses, and what each student's list
\* says of the other courses, are as before.
C13_DeleteCascades ==
    \A w \in Workers :
        Ready(w) =>
            \A r \in CascadeDeleteReqs(Headers) :
                LET out == delete_course_endpoint(Conn(w), r, now)
                    c == r.course_id
                IN  out.status = 200 =>
                      /\ out.st.tx = EmptyTx
                      /\ CourseRows(out.st, c) = {}
                      /\ ViewEnrollments(out.st) =
                             ViewEnrollments(Conn(w)) \ CourseRows(Conn(w), c)
                      /\ \A s \in StudentIds :
                             get_student_courses(out.st, s).rows =
                                 {x \in get_student_courses(Conn(w), s).rows :
                                      x.id # c}

\* a course that had an enrollment was deleted, and an enrollment of
\* another course is still there
C13_Witness ==
    \E w \in Workers :
        /\ pc[w] = "respond"
        /\ resp[w].op = "delete_course"
        /\ resp[w].status = 200
        /\ race[w] # NoRace
        /\ race[w].rows > 0
        /\ CourseRows(Conn(w), race[w].pair[2]) = {}
        /\ \E e \in db.enrollments : e.course_id # race[w].pair[2]

\* C15: an enroll that fails with a store error (500) rolls back only its
\* own effects: the students, courses and enrollments that the earlier
\* successful requests created or changed are all still there, unchanged.
C15_FailureKeepsEarlierRows ==
    \A w \in Workers :
        Ready(w) =>
            \A r \in EnrollReqs(Headers) :
                LET out == Endpoint(Conn(w), r, now)
                IN  out.status = 500 =>
                      /\ ViewStudents(out.st) = ViewStudents(Conn(w))
                      /\ ViewCourses(out.st) = ViewCourses(Conn(w))
                      /\ ViewEnrollments(out.st) = ViewEnrollments(Conn(w))

\* C16: when signup, course create, course update or enroll has answered
\* 200, its row change is committed: the connection holds no uncommitted
\* row, so that every row it sees is in the store for other connections and
\* outlives the connection.
C16_SuccessIsCommitted ==
    \A w \in Workers :
        (/\ pc[w] = "respond"
         /\ resp[w].op \in {"student_signup", "create_course",
                            "update_course", "enroll_student"}
         /\ resp[w].status = 200)
        => txn[w] = EmptyTx

\* C17: an admin's update or delete of a course id that does not exist
\* answers 404 and changes no course and no enrollment (nor anything else
\* in the store or the connection's transaction).
C17_MissingCourse404 ==
    \A w \in Workers :
        Ready(w) =>
            \A r \in UpdateCourseReqs(Headers) \cup DeleteCourseReqs(Headers) :
                (/\ AdminAuth(r.auth, now)
                 /\ ~\E c \in ViewCourses(Conn(w)) : c.id = r.course_id)
                => LET out == Endpoint(Conn(w), r, now)
                   IN  /\ out.status = 404
                       /\ out.detail = "Course not found"
                       /\ out.st = Conn(w)

\* an update or a delete of a missing course was answered 404 while the
\* connection held an uncommitted row
C17_Witness ==
    \E w \in Workers :
        /\ pc[w] = "respond"
        /\ resp[w].op \in {"update_course", "delete_course"}
        /\ resp[w].status = 404
        /\ txn[w] # EmptyTx

\* passwords around the length limit, beside those the clients send
PasswordSamples ==
    SignupPasswords \cup LoginPasswords \cup {"a", "abcde", "abcdef"}

\* C18: a signup whose password is empty or shorter than 6 characters is
\* answered 400, for a non-empty one with 'at least 6 characters' in the
\* detail, and creates no student and issues no token, whether or not the
\* e-mail is registered (a body whose email is not a well-formed address is
\* refused with 422 before the handler, and creates nothing either);
\* validate_password accepts every password of 6 or more characters and
\* no shorter one.
C18_WeakPassword ==
    /\ \A p \in PasswordSamples :
           /\ validate_password(p).ok <=> Len(p) >= MinPasswordLen
           /\ (p # "" /\ Len(p) < MinPasswordLen) =>
                  validate_password(p).msg =
                      "Password must be at least 6 characters long"
    /\ \A w \in Workers :
           Ready(w) =>
               \A r \in [op : {"student_signup"}, email : Emails,
                         password : PasswordSamples, name : Names] :
                   \A salt \in Salts :
                       Len(r.password) < MinPasswordLen =>
                           LET out == student_signup(Conn(w), r, now, salt)
                           IN  /\ out.status =
                                      IF EmailStr(r.email) THEN 400 ELSE 422
                               /\ (EmailStr(r.email) /\ r.password # "") =>
                                      out.detail = "Password must be at least 6 characters long"
                               /\ (EmailStr(r.email) /\ r.password = "") =>
                                      out.detail = "Password is required"
                               /\ out.tokens = {}
                               /\ out.body = {}
                               /\ out.st = Conn(w)

\* a signup with a short password was answered 400 with the length message
\* while every address a client can sign up with was registered
C18_Witness ==
    \E w \in Workers :
        /\ pc[w] = "respond"
        /\ resp[w].op = "student_signup"
        /\ resp[w].status = 400
        /\ resp[w].detail = "Password must be at least 6 characters long"
        /\ \A e \in {x \in Emails : EmailStr(x)} :
               \E s \in ViewStudents(Conn(w)) : s.email = e

\* an address as the specification understands it: an "@" with something
\* before it and something after it
WellFormed(email) ==
    \E i \in 1..Len(email) : email[i] = "@" /\ 1 < i /\ i < Len(email)

\* C19: a signup whose email is malformed (no "@", or nothing before or
\* after it) is answered with status 400 and creates no student.
C19_MalformedEmail400 ==
    \A w \in Workers :
        Ready(w) =>
            \A r \in SignupReqs : \A salt \in Salts :
                ~WellFormed(r.email) =>
                    LET out == student_signup(Conn(w), r, now, salt)
                    IN  /\ out.status = 400
                        /\ ViewStudents(out.st) = ViewStudents(Conn(w))

\* C20: validate_email returns True only for a string with a non-empty
\* local part, an "@" and a non-empty domain after it; it returns False for
\* a string without "@", for "@t.t" (empty local part) and for "t@" (empty
\* domain), and True for "t@t.t".
C20_ValidateEmail ==
    \A w \in Workers :
        (pc[w] = "respond" /\ resp[w].op = "validate_email") =>
            LET email == req[w].email
                result == CHOOSE b \in resp[w].body : TRUE
            IN  /\ result => WellFormed(email)
                /\ ~Contains(email, "@") => ~result
                /\ email = <<"@", "t", ".", "t">> => ~result
                /\ email = <<"t", "@">> => ~result
                /\ email = <<"t", "@", "t", ".", "t">> => result

\* C21: a startup leaves exactly one admin row named 'admin'; when the row
\* was there, the startup changes neither it nor its password hash, whatever
\* salt the startup hashed the default password with; the committed
\* students, courses and enrollments, and the rows other connections hold,
\* are kept.
C21_StartupIdempotent ==
    /\ Cardinality({a \in db.admins : a.username = "admin"}) =
           IF db.schema THEN 1 ELSE 0
    /\ \A w \in Workers :
           ~running[w] =>
               \A salt \in BootSalts :
                   LET s2 == startup_event(db, salt)
                   IN  /\ Cardinality({a \in s2.db.admins :
                                           a.username = "admin"}) = 1
                       /\ db.admins # {} => s2.db.admins = db.admins
                       /\ s2.db.students = db.students
                       /\ s2.db.courses = db.courses
                       /\ s2.db.enrollments = db.enrollments
                       /\ s2.db.seq = db.seq
                       /\ s2.tx = EmptyTx

\* both processes are up, so two startups have run; there is one admin row,
\* and a committed student, course and enrollment are there
C21_Witness ==
    /\ \A w \in Workers : running[w]
    /\ db.enrollments # {}
    /\ db.students # {}
    /\ db.courses # {}
    /\ Cardinality(db.admins) = 1

\* the constant details of the handlers' 500 responses
FailureDetails ==
    {"Signup failed", "Login failed", "Failed to fetch courses",
     "Failed to create course", "Failed to update course",
     "Failed to delete course", "Failed to fetch students",
     "Failed to enroll student", "Failed to unenroll student",
     "Failed to fetch student courses", "Failed to fetch course students"}

\* C22: whenever a store call of a handler raises, be it a constraint
\* violation or a failure of the store, the response is 500 with the
\* handler's constant detail, no body and no token, and the detail is not
\* the text of the exception.
C22_StoreErrorIs500 ==
    \A w \in Workers :
        Ready(w) =>
            \A r \in AllReqs(Headers) : \A salt \in Salts :
                LET normal == Dispatch(Conn(w), r, now, salt)
                IN  /\ normal.status = 500 =>
                        /\ normal.detail \in FailureDetails
                        /\ normal.detail \notin StoreErrors
                        /\ normal.body = {}
                        /\ normal.tokens = {}
                    /\ normal.queries > 0 =>
                        \A e \in StoreErrors :
                            LET out == on_store_error(Conn(w), r, now, salt, e)
                            IN  /\ out.status = 500
                                /\ out.detail \in FailureDetails
                                /\ out.detail \notin StoreErrors
                                /\ out.body = {}
                                /\ out.tokens = {}

\* a listing of the courses, which has no other way to fail, was answered
\* 500 with its constant detail after the store raised
C22_Witness ==
    \E w \in Workers :
        /\ pc[w] = "respond"
        /\ resp[w].op = "get_courses"
        /\ resp[w].status = 500
        /\ resp[w].detail = "Failed to fetch courses"

\* C23: for a stored hash that is not a well-formed bcrypt hash,
\* verify_password returns False for every plaintext (it returns a Boolean
\* for every hash), and a login against such an account is answered 401
\* 'Invalid credentials', never 500, with no token.
C23_MalformedHashIs401 ==
    \A w \in Workers :
        (running[w] /\ req[w].op = "student_login") =>
            \A s \in db.students :
                /\ verify_password(req[w].password, s.password_hash)
                       \in BOOLEAN
                /\ s.password_hash \in MalformedHashes =>
                       LET out == student_login(Conn(w), req[w], now)
                       IN  /\ ~verify_password(req[w].password,
                                               s.password_hash)
                           /\ out.status = 401
                           /\ out.detail = "Invalid credentials"
                           /\ out.tokens = {}
                           /\ out.st = Conn(w)

\* a login with the very string the password_hash column holds was
\* answered 401
C23_Witness ==
    \E w \in Workers :
        /\ pc[w] = "respond"
        /\ resp[w].op = "student_login"
        /\ resp[w].status = 401
        /\ \E s \in db.students :
               /\ s.password_hash \in MalformedHashes
               /\ s.password_hash.digest[2] = req[w].password

\* the string a hash is stored as: "$", the scheme, the salt and the digest
Encoded(h) ==
    "$" \o h.scheme \o "$" \o ToString(h.salt) \o "$" \o h.digest[2]

\* C24: verify_password(p, hash_password(p)) is True for every password p,
\* verify_password(p2, hash_password(p)) is False for every p2 other than p,
\* and hash_password(p) is never p itself.
C24_HashVerify ==
    \A w \in Workers :
        (pc[w] = "respond" /\ resp[w].op = "verify_password") =>
            \A s \in db.students :
                \A p \in HashPasswords : \A salt \in BootSalts :
                    s.password_hash = hash_password(p, salt) =>
                        /\ verify_password(req[w].password, s.password_hash)
                               <=> req[w].password = p
                        /\ resp[w].body = {req[w].password = p}
                        /\ Encoded(s.password_hash) # p

\* C25: in production mode the constructor raises, and no Config object
\* results, exactly when POSTGRES_URL is unset or empty; in every other mode
\* it always returns a Config object, whose connection string is
\* TEST_DATABASE_URL when that is set and the default string when it is not.
C25_ConfigFailsFast ==
    \A w \in Workers :
        (pc[w] = "respond" /\ resp[w].op = "Config") =>
            LET mode == req[w].mode
                env == req[w].env
                config == CHOOSE c \in resp[w].body : TRUE
            IN  /\ mode = "prod" =>
                      /\ config.raised <=>
                             (~env.POSTGRES_URL.set
                                  \/ env.POSTGRES_URL.value = "")
                      /\ config.raised => config = NoConfig
                      /\ ~config.raised =>
                             config.database_url = env.POSTGRES_URL.value
                /\ mode # "prod" =>
                      /\ ~config.raised
                      /\ config.mode = mode
                      /\ config.database_url =
                             IF env.TEST_DATABASE_URL.set
                             THEN env.TEST_DATABASE_URL.value
                             ELSE "postgresql://localhost/course_management_test"

\* the constructor raised in production mode for a POSTGRES_URL that is set
\* to the empty string
C25_Witness ==
    \E w \in Workers :
        /\ pc[w] = "respond"
        /\ resp[w].op = "Config"
        /\ req[w].mode = "prod"
        /\ req[w].env.POSTGRES_URL = Set("")
        /\ resp[w].body = {NoConfig}

\* C26: an admin's unenroll of (s, c) answers 200 whether the pair has a
\* row or not, removes the pair's row and nothing else (every other
\* enrollment, every student and every course is as before), and a second
\* unenroll of the pair answers 200 again and changes nothing.
C26_UnenrollFrame ==
    \A w \in Workers :
        Ready(w) =>
            \A r \in CascadeUnenrollReqs(Headers) :
                AdminAuth(r.auth, now) =>
                    LET out == unenroll_student_endpoint(Conn(w), r, now)
                        again == unenroll_student_endpoint(out.st, r, now)
                    IN  /\ out.status = 200
                        /\ out.detail = "Student unenrolled successfully"
                        /\ ViewEnrollments(out.st) =
                               ViewEnrollments(Conn(w)) \
                                   PairRows(Conn(w), r.student_id,
                                            r.course_id)
                        /\ ViewStudents(out.st) = ViewStudents(Conn(w))
                        /\ ViewCourses(out.st) = ViewCourses(Conn(w))
                        /\ again.status = 200
                        /\ again.st = out.st

\* an unenroll removed the row of its pair and the student's enrollment in
\* the other course is still there
C26_Witness ==
    \E w \in Workers :
        /\ pc[w] = "respond"
        /\ resp[w].op = "unenroll_student"
        /\ resp[w].status = 200
        /\ race[w] # NoRace
        /\ race[w].rows = 1
        /\ PairRows(Conn(w), race[w].pair[1], race[w].pair[2]) = {}
        /\ \E e \in ViewEnrollments(Conn(w)) :
               e.student_id = race[w].pair[1]

\* C27: an admin's update of course c that answers 200 sets c's title and
\* description to the request's and its updated_at to the time of the
\* request, and changes nothing else: c's id, creator and created_at, every
\* other course, every student and every enrollment are as before; the
\* response carries the new title.
C27_UpdateFrame ==
    \A w \in Workers :
        Ready(w) =>
            \A r \in CascadeUpdateReqs(Headers) :
                LET out == update_course_endpoint(Conn(w), r, now)
                IN  out.status = 200 =>
                      /\ ViewCourses(out.st) =
                             {IF c.id = r.course_id
                              THEN [c EXCEPT !.title = r.title,
                                             !.description = r.description,
                                             !.updated_at = now]
                              ELSE c : c \in ViewCourses(Conn(w))}
                      /\ ViewEnrollments(out.st) = ViewEnrollments(Conn(w))
                      /\ ViewStudents(out.st) = ViewStudents(Conn(w))
                      /\ out.body =
                             {[id |-> r.course_id, title |-> r.title,
                               description |-> r.description,
                               updated_at |-> now]}

\* a course with an enrollment was updated and the other course has the
\* title it was created with
C27_Witness ==
    \E w \in Workers :
        /\ pc[w] = "respond"
        /\ resp[w].op = "update_course"
        /\ resp[w].status = 200
        /\ \E b \in resp[w].body :
               /\ b.title = "U"
               /\ \E e \in ViewEnrollments(Conn(w)) : e.course_id = b.id
               /\ \E c \in ViewCourses(Conn(w)) :
                      c.id # b.id /\ c.title = "T"

\* C28: an admin's enroll that names a course id that does not exist is
\* answered 404 'Course not found' and creates no enrollment row (it
\* changes nothing), whatever student id it names.
C28_EnrollMissingCourse ==
    \A w \in Workers :
        Ready(w) =>
            \A r \in CascadeEnrollReqs(Headers) :
                (/\ AdminAuth(r.auth, now)
                 /\ ~\E c \in ViewCourses(Conn(w)) : c.id = r.course_id)
                => LET out == enroll_student_endpoint(Conn(w), r, now)
                   IN  /\ out.status = 404
                       /\ out.detail = "Course not found"
                       /\ out.body = {}
                       /\ out.st = Conn(w)

\* an enroll was answered 404 while a student and another course existed
C28_Witness ==
    \E w \in Workers :
        /\ pc[w] = "respond"
        /\ resp[w].op = "enroll_student"
        /\ resp[w].status = 404
        /\ ViewStudents(Conn(w)) # {}
        /\ ViewCourses(Conn(w)) # {}

\* C29: an admin's enroll that names an existing course and a student id
\* that does not exist creates no enrollment row and is answered with an
\* error status (500 'Failed to enroll student'), never with 'Student
\* enrolled successfully' or 'Student already enrolled in this course'.
C29_EnrollMissingStudent ==
    \A w \in Workers :
        Ready(w) =>
            \A r \in CascadeEnrollReqs(Headers) :
                (/\ AdminAuth(r.auth, now)
                 /\ \E c \in ViewCourses(Conn(w)) : c.id = r.course_id
                 /\ ~\E s \in ViewStudents(Conn(w)) : s.id = r.student_id)
                => LET out == enroll_student_endpoint(Conn(w), r, now)
                   IN  /\ out.status = 500
                       /\ out.detail = "Failed to enroll student"
                       /\ out.body = {}
                       /\ ViewEnrollments(out.st) \subseteq
                              ViewEnrollments(Conn(w))
                       /\ PairRows(out.st, r.student_id, r.course_id) = {}

\* an enroll in a committed course was refused with 500
C29_Witness ==
    \E w \in Workers :
        /\ pc[w] = "respond"
        /\ resp[w].op = "enroll_student"
        /\ resp[w].status = 500
        /\ resp[w].detail = "Failed to enroll student"
        /\ db.courses # {}
        /\ ViewEnrollments(Conn(w)) = db.enrollments

\* the columns a response may carry for a student or an administrator
ExposedColumns(op) ==
    CASE op \in {"student_signup", "student_login"} ->
             {"id", "email", "name"}
      [] op = "admin_login" -> {"id", "username"}
      [] op = "get_students" -> {"id", "email", "name", "created_at"}
      [] op = "get_course_students" ->
             {"id", "email", "name", "enrolled_at"}
      [] OTHER -> {"id", "title", "description", "created_at", "updated_at",
                   "enrolled_at", "student_id", "course_id"}

\* C30: no response of any endpoint carries a stored password hash: the
\* records of signup and login responses have the columns id, email and
\* name (id and username for an admin), those of the two student listings
\* id, email, name and a timestamp, and no token carries a hash.
C30_NoHashInResponse ==
    \A w \in Workers :
        Ready(w) =>
            \A r \in AllReqs(Headers) : \A salt \in Salts :
                LET out == Dispatch(Conn(w), r, now, salt)
                IN  /\ \A b \in out.body :
                           /\ "password_hash" \notin DOMAIN b
                           /\ DOMAIN b \subseteq ExposedColumns(r.op)
                    /\ \A tok \in out.tokens :
                           "password_hash" \notin DOMAIN tok.payload
                    /\ r.op \in {"student_signup", "student_login",
                                 "admin_login"} =>
                           \A b \in out.body :
                               DOMAIN b = ExposedColumns(r.op)

\* the listing of all students answered with the row of a student, whose
\* stored row holds the hash
C30_Witness ==
    \E w \in Workers :
        /\ pc[w] = "respond"
        /\ resp[w].op = "get_students"
        /\ resp[w].status = 200
        /\ \E b \in resp[w].body : \E s \in ViewStudents(Conn(w)) :
               /\ s.id = b.id
               /\ s.password_hash.scheme = "bcrypt"
               /\ "password_hash" \notin DOMAIN b

====
